---- MODULE Spec2Model ----
(***************************************************************************)
(* Verification model of the Miabe IA repository:                          *)
(*   - the crawl-and-deduplicate store of src/scraping_pipeline.py,        *)
(*   - the Markdown dedup passes of src/scraping_pipeline.py,              *)
(*   - the index build of src/generic_chunk_embed.py,                      *)
(*   - the two normalize_text functions,                                   *)
(*   - the request pipeline of src/core/chatbot.py.                        *)
(* Each part has its own specification over the shared variables.          *)
(***************************************************************************)
EXTENDS Integers, Sequences, FiniteSets, TLC

(***************************************************************************)
(* Bounds of the model.                                                    *)
(***************************************************************************)
NumWorkers == 2
MaxPagesBound == 2
MaxCrawls == 3

(***************************************************************************)
(* Generic helpers: a directory or a dict is a function whose DOMAIN is    *)
(* the set of names (keys) present.                                        *)
(***************************************************************************)
Empty == [x \in {} |-> "none"]
Put(f, k, v) == [x \in (DOMAIN f) \cup {k} |-> IF x = k THEN v ELSE f[x]]
Del(f, K) == [x \in (DOMAIN f) \ K |-> f[x]]
Range(f) == {f[x] : x \in DOMAIN f}
SeqToSet(s) == {s[i] : i \in 1..Len(s)}

(***************************************************************************)
(* The web site being crawled (the environment of crawl_website).          *)
(* A URL answers with a body or not at all ("none": RequestException).     *)
(* Bodies h* are HTML pages, k* are binary documents.                      *)
(***************************************************************************)
LinkUrls == {"l1", "l2", "l3", "l4", "l5"}
Urls == {"a", "b", "d.pdf", "ext"} \cup LinkUrls
HtmlBodies == {"h1", "h2", "h3", "h5"}
BinBodies == {"k1", "k2"}

\* the <a href> targets of an HTML body, in document order (absolute URLs)
LinksOf(body) ==
    CASE body = "h1" -> <<"b", "d.pdf", "ext", "d.pdf">>
      [] body = "h3" -> <<"a", "d.pdf", "l1">>
      [] body = "h5" -> <<"l1", "l2", "l3", "l4", "l5">>
      [] OTHER -> <<>>

Site(x, y, z) ==
    [u \in Urls |-> CASE u = "a" -> x
                      [] u = "b" -> y
                      [] u = "d.pdf" -> z
                      [] u \in LinkUrls -> "h2"
                      [] OTHER -> "none"]

SiteChoices ==
    { Site("h3", "k1", "k1"),
      Site("h1", "h3", "k1"),
      Site("h1", "h1", "k1"),
      Site("h5", "k2", "k2"),
      Site("h1", "none", "none") }

StartUrlChoices == { <<"a">>, <<"a", "a", "b">> }
\* the arguments of a crawl: the seeds and max_pages; one crawl has three
\* seeds and a max_pages above the size of the pool
CrawlChoices ==
    { [start_urls |-> seeds, max_pages |-> m] :
         seeds \in StartUrlChoices, m \in 1..MaxPagesBound }
    \cup { [start_urls |-> <<"a", "b", "ext">>, max_pages |-> NumWorkers + 1] }
    \cup { [start_urls |-> <<"a", "a", "b">>, max_pages |-> NumWorkers + 1] }

VARIABLES
    \* --- the crawl store on disk (OUTPUT_STRUCTURE)
    htmlFiles,      \* html_brut/<id>.html        : id -> body
    htmlHashes,     \* html_hashes/<id>.hash      : id -> content hash
    docFiles,       \* documents/<id><ext>        : <<id, ext>> -> body
    docHashes,      \* document_hashes/<id>.hash  : id -> content hash
    tempFiles,      \* documents/<id>_temp<ext>   : <<id, ext>> -> body
    ledger,         \* metadata.json              : id -> entry
    \* --- one crawl_website invocation
    site, start_urls, max_pages,
    urls_to_visit, visited_urls, futures, stats, mpc,
    workers,        \* the pool threads: w -> the frame of worker_scrape
    \* --- history of crawls (for the re-crawl claims)
    crawlNo,        \* number of crawl_website calls so far
    runSite,        \* the site as the latest crawl saw it
    rerun,          \* the running crawl repeats the previous one unchanged
    startStore,     \* the store when a repeated crawl started
    \* --- the Markdown folders and one dedup pass over them
    mdHtml,         \* converted_html/<name>       : name -> text
    mdDocs,         \* converted_documents/<name>  : name -> text
    dResult,        \* what the latest dedup pass returned
    dRuns,          \* number of dedup passes so far
    corrupted_dir,  \* corrupted_files/<id>.html, <id>.hash : <<id, suffix>> -> content
    clean_stats,    \* what clean_corrupted_html_files returned last
    clean_runs,     \* number of cleaning passes so far
    \* --- one create_vector_store run (generic_chunk_embed.py)
    markdown_files, \* the files still to process
    all_texts_for_embedding, all_texts_for_storage, all_chunk_metadata,
    embeddings, ipc,
    idxFile,        \* vector_store/faiss_index.idx
    mapFile,        \* vector_store/index_mapping.pkl
    \* --- the two normalize_text functions on one input
    nText,          \* the input string, a sequence of characters
    nBuild,         \* normalize_text of generic_chunk_embed.py on it
    nQuery,         \* normalize_text of utils/text_helpers.py on it
    nDone,          \* which of the two have run
    \* --- one /chat request (api.py, core/chatbot.py)
    cpc, cQuestion, cHistory, cRewritten, cIntent, cFound, cOut, http,
    cCalls,         \* the calls made to the models and to the index, in order
    chatbot,        \* the Chatbot instance of api.py and the store it loaded
    search_results, \* what _find_relevant_chunks returned
    concurrent_results, \* what it returned to a concurrent request
    \* --- one call of save_content_hash, load_content_hash or delete_old_file
    fpc,            \* where the call is
    fOp,            \* the function, its arguments and the files it will touch
    fTodo,          \* the files it has still to touch, the current one first
    attempt,        \* the loop variable of the retry loop on the current file
    fLog,           \* per file done with: the attempts made, and gave up or not
    fRet,           \* the value returned
    \* --- the sessions of src/auth/logic.py
    sessions,       \* the collection `sessions`: _id -> document
    issued,         \* the raw tokens generate_session_token has returned
    now,            \* datetime.utcnow(), in days
    vpc,            \* where the call of validate_session_token is
    vToken,         \* its argument
    vSess,          \* the document its find_one returned
    vRet,           \* the value it returned
    vStale,         \* its token had been deleted when it was called
    revoked,        \* the tokens for which delete_session_token returned True
    deleted         \* the latest call of delete_session_token and its value

storeVars == <<htmlFiles, htmlHashes, docFiles, docHashes, tempFiles, ledger>>
crawlVars == <<site, start_urls, max_pages, urls_to_visit, visited_urls,
               futures, stats, mpc, workers, crawlNo, runSite, rerun, startStore>>
dedupVars == <<mdHtml, mdDocs, dResult, dRuns, corrupted_dir, clean_stats, clean_runs>>
indexVars == <<markdown_files, all_texts_for_embedding, all_texts_for_storage,
               all_chunk_metadata, embeddings, ipc, idxFile, mapFile>>
normVars == <<nText, nBuild, nQuery, nDone>>
chatVars == <<cpc, cQuestion, cHistory, cRewritten, cIntent, cFound, cOut, http,
              cCalls, chatbot, search_results, concurrent_results>>
retryVars == <<fpc, fOp, fTodo, attempt, fLog, fRet>>
authVars == <<sessions, issued, now, vpc, vToken, vSess, vRet, vStale, revoked, deleted>>
vars == <<storeVars, crawlVars, dedupVars, indexVars, normVars, chatVars,
          retryVars, authVars>>

\* the parts at rest: what a specification of another part starts from
NoResult == [folder |-> "none", dry_run |-> TRUE, duplicate_groups |-> 0,
             files_kept |-> 0, files_removed |-> 0, removed_files |-> {}]
\* the files of the vector store: which build wrote them ("none": the file
\* does not exist) and what they hold; "loadable" is whether read_index or
\* pickle.load accepts the bytes of the file
NoIndexFile == [exists |-> FALSE, build |-> "none", loadable |-> FALSE, vectors |-> <<>>]
NoMappingFile ==
    [exists |-> FALSE, build |-> "none", loadable |-> FALSE, texts |-> <<>>,
     metadata |-> <<>>]
\* no Chatbot instance: the module of api.py has not been imported
NoChatbot ==
    [ready |-> FALSE, index |-> <<>>, all_chunk_texts |-> <<>>,
     all_chunk_metadata |-> <<>>]
NoOp == [name |-> "none", file_type |-> "none", hash_name |-> "none",
         content_hash |-> "none", targets |-> <<>>]
\* _hash_token, lines 31-32: the SHA-256 of the token, taken as injective
_hash_token(token) == [sha256 |-> token]
\* no document: what find_one returns when nothing matches
NoSess == [id |-> 0, token_hash |-> _hash_token(""), user_id |-> "none",
           expires_at |-> 0]
NoDelete == [token |-> "", ret |-> FALSE]
AuthAtRest ==
    /\ sessions = Empty /\ issued = <<>> /\ now = 0
    /\ vpc = "idle" /\ vToken = "" /\ vSess = NoSess /\ vRet = "pending"
    /\ vStale = FALSE /\ revoked = {} /\ deleted = NoDelete
RetryAtRest ==
    /\ fpc = "idle" /\ fOp = NoOp /\ fTodo = <<>> /\ attempt = 0
    /\ fLog = <<>> /\ fRet = "none"
\* the stats of a cleaning pass before any file is looked at, lines 772-780
\* (dry_run is the argument of the pass)
NoCleanStats ==
    [dry_run |-> TRUE, total_checked |-> 0, corrupted_pdf |-> 0, corrupted_zip |-> 0,
     corrupted_other |-> 0, moved |-> 0, errors |-> 0, corrupted_files |-> {}]
DedupAtRest ==
    /\ mdHtml = Empty /\ mdDocs = Empty /\ dResult = NoResult /\ dRuns = 0
    /\ corrupted_dir = Empty /\ clean_stats = NoCleanStats /\ clean_runs = 0
IndexAtRest ==
    /\ markdown_files = <<>>
    /\ all_texts_for_embedding = <<>> /\ all_texts_for_storage = <<>>
    /\ all_chunk_metadata = <<>> /\ embeddings = <<>>
    /\ ipc = "idle"
    /\ idxFile = NoIndexFile
    /\ mapFile = NoMappingFile
NormAtRest == nText = <<>> /\ nBuild = <<>> /\ nQuery = <<>> /\ nDone = {}
ChatAtRest ==
    /\ cpc = "idle" /\ cQuestion = "none" /\ cHistory = <<>>
    /\ cRewritten = "none" /\ cIntent = "none" /\ cFound = 0
    /\ cOut = <<>> /\ http = "none" /\ cCalls = <<>>
    /\ chatbot = NoChatbot /\ search_results = <<>>
    /\ concurrent_results = <<>>


(***************************************************************************)
(* Pure helpers of scraping_pipeline.py                                    *)
(***************************************************************************)
\* hash_url: SHA-256 of the URL, taken as injective: the identifier of a
\* URL is written as the URL itself.
hash_url(url) == url

\* SHA-256 of a body, taken as injective: the digest of body c is written c.
content_hash_of(body) == body

DocExtOfUrl(url) == IF url = "d.pdf" THEN ".pdf" ELSE "none"

\* scrape_page: is_binary (Content-Type) or has_doc_extension (URL), with
\* the mutant that routes nothing
IsDocumentResponseNever(url, body) == FALSE

IsDocumentResponse(url, body) == body \in BinBodies \/ DocExtOfUrl(url) # "none"

\* download_document: extension from the URL, else from the Content-Type,
\* else .bin
ExtensionFor(url, body) ==
    IF DocExtOfUrl(url) # "none" THEN DocExtOfUrl(url)
    ELSE IF body = "k1" THEN ".pdf"
    ELSE IF body = "k2" THEN ".csv"
    ELSE ".bin"

\* scrape_page: base_domain in urlparse(absolute_url).netloc
InScope(url) == url # "ext"

\* mutant: the document sidecars are left out of the global index
get_all_content_hashes_html_only == Range(htmlHashes)

\* lines 251-267
get_all_content_hashes == Range(htmlHashes) \cup Range(docHashes)

load_content_hash(hashes, id) == IF id \in DOMAIN hashes THEN hashes[id] ELSE "none"

MetadataEntry(url, h) == [url |-> url, content_hash |-> h, duplicate_of |-> "none"]

(***************************************************************************)
(* The frame of one pool thread running worker_scrape(url).                *)
(*   pc    where the thread stands (idle: no future; done: future.done())  *)
(*   url   the URL given to scrape_page     body  response.text            *)
(*   todo  the <a> tags still to loop over  found found_links              *)
(*   doc   the URL download_document runs on, ext its extension            *)
(*   hash  content_hash_value               ret   where download returns   *)
(*   old   old_content_hash of the function that is running                *)
(*   success   the third component of the result of worker_scrape          *)
(*   metadata  the dict add_metadata_entry has loaded, while it holds      *)
(*             _metadata_lock                                              *)
(***************************************************************************)
Idle == [pc |-> "idle", url |-> "none", body |-> "none", todo |-> <<>>,
         found |-> <<>>, doc |-> "none", ext |-> "none", hash |-> "none",
         old |-> "none", ret |-> "none", success |-> TRUE, metadata |-> Empty]

Store == [htmlFiles |-> htmlFiles, htmlHashes |-> htmlHashes,
          docFiles |-> docFiles, docHashes |-> docHashes,
          tempFiles |-> tempFiles, ledger |-> ledger]

NoStore == [htmlFiles |-> Empty, htmlHashes |-> Empty, docFiles |-> Empty,
            docHashes |-> Empty, tempFiles |-> Empty, ledger |-> Empty]

NoStats == [total_pages |-> 0, pages_scraped |-> 0, pages_skipped |-> 0, errors |-> 0]

StoreEmpty ==
    /\ htmlFiles = Empty /\ htmlHashes = Empty
    /\ docFiles = Empty /\ docHashes = Empty /\ tempFiles = Empty
    /\ ledger = Empty

CrawlAtRest ==
    /\ start_urls = <<>> /\ max_pages = 0
    /\ urls_to_visit = <<>> /\ visited_urls = {} /\ futures = <<>>
    /\ stats = NoStats
    /\ mpc = "idle"
    /\ workers = [w \in 1..NumWorkers |-> Idle]
    /\ crawlNo = 0
    /\ runSite = site
    /\ rerun = FALSE
    /\ startStore = NoStore

\* no site is being crawled
NoSite == [u \in Urls |-> "none"]

Init ==
    /\ StoreEmpty
    /\ site \in SiteChoices
    /\ CrawlAtRest
    /\ DedupAtRest /\ IndexAtRest /\ NormAtRest /\ ChatAtRest /\ RetryAtRest /\ AuthAtRest

(***************************************************************************)
(* The environment: between two crawls the site may change.                *)
(***************************************************************************)
SiteChange ==
    /\ mpc \in {"idle", "returned"}
    /\ crawlNo < MaxCrawls
    /\ site' \in SiteChoices \ {site}
    /\ UNCHANGED <<storeVars, start_urls, max_pages, urls_to_visit, visited_urls,
                   futures, stats, mpc, workers, crawlNo, runSite, rerun, startStore>>
    /\ UNCHANGED <<dedupVars, indexVars, normVars, chatVars, retryVars, authVars>>

(***************************************************************************)
(* crawl_website, lines 551-570: entry.                                    *)
(***************************************************************************)
CrawlStart ==
    /\ mpc \in {"idle", "returned"}
    /\ crawlNo < MaxCrawls
    /\ \E c \in CrawlChoices :
          /\ start_urls' = c.start_urls
          /\ max_pages' = c.max_pages
          /\ urls_to_visit' = c.start_urls
          /\ rerun' = (mpc = "returned" /\ site = runSite
                         /\ c.start_urls = start_urls /\ c.max_pages = max_pages)
    /\ visited_urls' = {}
    /\ futures' = <<>>
    /\ stats' = NoStats
    /\ mpc' = "dispatch"
    /\ crawlNo' = crawlNo + 1
    /\ runSite' = site
    /\ startStore' = IF rerun' THEN Store ELSE NoStore
    /\ UNCHANGED <<storeVars, site, workers>>
    /\ UNCHANGED <<dedupVars, indexVars, normVars, chatVars, retryVars, authVars>>

\* mutant: the guard without the max_pages test
CanDispatchNoLimit ==
    /\ urls_to_visit # <<>>
    /\ Len(futures) < NumWorkers

\* the guard of the inner while, line 587
CanDispatch ==
    /\ urls_to_visit # <<>>
    /\ Len(futures) < NumWorkers
    /\ stats.total_pages < max_pages

FreeWorker == CHOOSE w \in 1..NumWorkers : workers[w].pc = "idle"

\* the crawl lock of line 561 is held by the main thread while it is inside
\* the with block of line 589 ("pop") or of line 617 ("enqueue"); no pool
\* thread takes it
CrawlLockHeld == mpc \in {"pop", "enqueue"}

\* lines 587-589: the guard of the inner while holds, the lock is taken
DispatchLock ==
    /\ mpc = "dispatch"
    /\ CanDispatch
    /\ mpc' = "pop"
    /\ UNCHANGED <<storeVars, site, start_urls, max_pages, urls_to_visit,
                   visited_urls, futures, stats, workers, crawlNo, runSite,
                   rerun, startStore>>
    /\ UNCHANGED <<dedupVars, indexVars, normVars, chatVars, retryVars, authVars>>

\* line 593, with the mutant that takes the newest URL: deque.popleft()
\* returns the oldest URL of the frontier and removes it
pop(queue) == [url |-> queue[Len(queue)], rest |-> SubSeq(queue, 1, Len(queue) - 1)]

popleft(queue) == [url |-> Head(queue), rest |-> Tail(queue)]

\* lines 590-602: the body of the with block, then the lock is released and
\* the URL is submitted
Dispatch ==
    /\ mpc = "pop"
    /\ urls_to_visit # <<>>
    /\ LET url == popleft(urls_to_visit).url IN
       /\ urls_to_visit' = popleft(urls_to_visit).rest
       /\ IF url \in visited_urls
          THEN UNCHANGED <<visited_urls, stats, futures, workers>>
          ELSE /\ visited_urls' = visited_urls \cup {url}
               /\ stats' = [stats EXCEPT !.total_pages = @ + 1]
               /\ futures' = Append(futures, FreeWorker)
               /\ workers' = [workers EXCEPT ![FreeWorker] =
                                 [Idle EXCEPT !.pc = "start", !.url = url]]
    /\ mpc' = "dispatch"
    /\ UNCHANGED <<storeVars, site, start_urls, max_pages, crawlNo, runSite,
                   rerun, startStore>>
    /\ UNCHANGED <<dedupVars, indexVars, normVars, chatVars, retryVars, authVars>>

\* mutant: every link is appended
EnqueueAll(queue, links, visited) == queue \o links

\* lines 617-620: enqueue the links of one harvested result
RECURSIVE Enqueue(_, _, _)
Enqueue(queue, links, visited) ==
    IF links = <<>> THEN queue
    ELSE LET link == Head(links) IN
         Enqueue(IF link \notin visited /\ link \notin SeqToSet(queue)
                 THEN Append(queue, link) ELSE queue,
                 Tail(links), visited)

\* lines 607-632: the for loop over list(futures.keys()); h is the harvest
\* state [futures, queue, stats]
RECURSIVE HarvestLoop(_, _)
HarvestLoop(fs, h) ==
    IF fs = <<>> THEN h
    ELSE LET w == Head(fs) IN
         IF workers[w].pc = "done"
         THEN HarvestLoop(Tail(fs),
                 IF workers[w].success
                 THEN [futures |-> SelectSeq(h.futures, LAMBDA x : x # w),
                       queue |-> Enqueue(h.queue, workers[w].found, visited_urls),
                       stats |-> [h.stats EXCEPT !.pages_scraped = @ + 1]]
                 ELSE [futures |-> SelectSeq(h.futures, LAMBDA x : x # w),
                       queue |-> h.queue,
                       stats |-> [h.stats EXCEPT !.errors = @ + 1]])
         ELSE HarvestLoop(Tail(fs), h)

\* line 634, with the mutant that never breaks
MaxPagesReachedNever(h) == FALSE

MaxPagesReached(h) == h.stats.total_pages >= max_pages

\* lines 612-617: a finished future reports success, its links are
\* enqueued inside a with block of the lock
EnqueueNeedsLockNever == FALSE

EnqueueNeedsLock ==
    \E w \in SeqToSet(futures) : workers[w].pc = "done" /\ workers[w].success

\* lines 604-617: the inner while is over, a finished future has links to
\* enqueue, the lock is taken
HarvestLock ==
    /\ mpc = "dispatch"
    /\ ~CanDispatch
    /\ EnqueueNeedsLock
    /\ mpc' = "enqueue"
    /\ UNCHANGED <<storeVars, site, start_urls, max_pages, urls_to_visit,
                   visited_urls, futures, stats, workers, crawlNo, runSite,
                   rerun, startStore>>
    /\ UNCHANGED <<dedupVars, indexVars, normVars, chatVars, retryVars, authVars>>

\* lines 604-635: the harvest of the finished futures, then the max_pages
\* break and the test of the outer while
Harvest ==
    /\ \/ mpc = "enqueue"
       \/ mpc = "dispatch" /\ ~CanDispatch /\ ~EnqueueNeedsLock
    /\ LET h == HarvestLoop(futures, [futures |-> futures, queue |-> urls_to_visit,
                                      stats |-> stats]) IN
       /\ futures' = h.futures
       /\ urls_to_visit' = h.queue
       /\ stats' = h.stats
       /\ workers' = [w \in 1..NumWorkers |->
                        IF w \in SeqToSet(futures) /\ workers[w].pc = "done"
                        THEN Idle ELSE workers[w]]
       /\ mpc' = IF MaxPagesReached(h) THEN "join"
                 ELSE IF h.queue # <<>> \/ h.futures # <<>> THEN "dispatch"
                 ELSE "join"
    /\ UNCHANGED <<storeVars, site, start_urls, max_pages, visited_urls, crawlNo,
                   runSite, rerun, startStore>>
    /\ UNCHANGED <<dedupVars, indexVars, normVars, chatVars, retryVars, authVars>>

\* line 639, with the mutant that reports no skipped page
pages_skipped_none(st) == 0

pages_skipped(st) == st.total_pages - st.pages_scraped - st.errors

\* lines 580, 637-641: leaving the with block waits for the running
\* workers (ThreadPoolExecutor.__exit__), then the statistics are closed
Return ==
    /\ mpc = "join"
    /\ \A w \in 1..NumWorkers : workers[w].pc \in {"idle", "done"}
    /\ stats' = [stats EXCEPT !.pages_skipped = pages_skipped(stats)]
    /\ mpc' = "returned"
    /\ workers' = [w \in 1..NumWorkers |-> Idle]
    /\ futures' = <<>>
    /\ UNCHANGED <<storeVars, site, start_urls, max_pages, urls_to_visit, visited_urls,
                   crawlNo, runSite, rerun, startStore>>
    /\ UNCHANGED <<dedupVars, indexVars, normVars, chatVars, retryVars, authVars>>

(***************************************************************************)
(* scrape_page and download_document, run by pool thread w.  Only the      *)
(* thread's own frame and the store change.                                *)
(***************************************************************************)
Frame(w, f) ==
    /\ workers' = [workers EXCEPT ![w] = f]
    /\ UNCHANGED <<site, start_urls, max_pages, urls_to_visit, visited_urls,
                   futures, stats, mpc, crawlNo, runSite, rerun, startStore>>
    /\ UNCHANGED <<dedupVars, indexVars, normVars, chatVars, retryVars, authVars>>

\* return found_links (scrape_page, line 456, also after the except
\* clauses of lines 451-454), return (url, found_links, True)
\* (worker_scrape, line 576): the future is done
Finished(f) == [f EXCEPT !.pc = "done", !.todo = <<>>, !.success = TRUE]

\* the return of download_document to its caller in scrape_page: line 402
\* (return found_links) or the link loop of line 438
DownloadReturn(f) ==
    IF f.ret = "top" THEN Finished(f)
    ELSE [f EXCEPT !.pc = "s_links", !.doc = "none", !.ext = "none"]

\* the global tier, lines 410-411 and 513-514
KnownGlobally(h) == h \in get_all_content_hashes

\* delete_old_file, lines 313-358
delete_old_html(files, id) == Del(files, {id})
\* mutant: the old document is left in place
delete_old_docs_kept(files, id) == files

delete_old_docs(files, id) == Del(files, {n \in DOMAIN files : n[1] = id})

\* lines 368-412: the request, the routing of documents, the global tier
ScrapeFetch(w) ==
    LET f == workers[w]
        body == site[f.url]
        h == content_hash_of(body) IN
    /\ f.pc = "start"
    /\ UNCHANGED storeVars
    /\ IF body = "none"
       THEN Frame(w, Finished(f))
       ELSE IF IsDocumentResponse(f.url, body)
       THEN Frame(w, [f EXCEPT !.pc = "d_fetch", !.doc = f.url, !.ret = "top"])
       ELSE IF KnownGlobally(h)
       THEN Frame(w, Finished(f))
       ELSE Frame(w, [f EXCEPT !.pc = "s_old", !.body = body, !.hash = h])

\* lines 414-424: the per-identifier tier, then the page is written
ScrapeReplace(w) ==
    LET f == workers[w]
        id == hash_url(f.url)
        old == load_content_hash(htmlHashes, id) IN
    /\ f.pc = "s_old"
    /\ UNCHANGED <<docFiles, docHashes, tempFiles, ledger>>
    /\ IF old # "none" /\ old = f.hash
       THEN /\ UNCHANGED <<htmlFiles, htmlHashes>>
            /\ Frame(w, Finished(f))
       ELSE /\ htmlFiles' = Put(IF old # "none" THEN delete_old_html(htmlFiles, id)
                                ELSE htmlFiles, id, f.body)
            /\ htmlHashes' = IF old # "none" THEN Del(htmlHashes, {id}) ELSE htmlHashes
            /\ Frame(w, [f EXCEPT !.pc = "s_hash", !.old = old])

\* line 426: save_content_hash
ScrapeSaveHash(w) ==
    LET f == workers[w] IN
    /\ f.pc = "s_hash"
    /\ htmlHashes' = Put(htmlHashes, hash_url(f.url), f.hash)
    /\ UNCHANGED <<htmlFiles, docFiles, docHashes, tempFiles, ledger>>
    /\ Frame(w, [f EXCEPT !.pc = "s_lock"])

\* the threads inside the with _metadata_lock block of add_metadata_entry
MetadataLockHolders == {v \in 1..NumWorkers : workers[v].pc \in {"s_meta", "d_meta"}}

\* mutant: the lock is not taken
MetadataLockIgnored(w) == TRUE

\* line 142: with _metadata_lock can be entered
MetadataLockFree(w) == MetadataLockHolders \ {w} = {}

\* lines 428 and 142-151: add_metadata_entry takes the lock and loads the
\* ledger
ScrapeMetaLoad(w) ==
    LET f == workers[w] IN
    /\ f.pc = "s_lock"
    /\ MetadataLockFree(w)
    /\ UNCHANGED storeVars
    /\ Frame(w, [f EXCEPT !.pc = "s_meta", !.metadata = ledger])

\* lines 153-162: the entry is set, the ledger written and the lock
\* released; lines 428-436: then the page is parsed
ScrapeMeta(w) ==
    LET f == workers[w] IN
    /\ f.pc = "s_meta"
    /\ ledger' = Put(f.metadata, hash_url(f.url), MetadataEntry(f.url, f.hash))
    /\ UNCHANGED <<htmlFiles, htmlHashes, docFiles, docHashes, tempFiles>>
    /\ Frame(w, [f EXCEPT !.pc = "s_links", !.todo = LinksOf(f.body),
                            !.metadata = Empty])

\* line 444, with the mutant that sees no document link
is_document_link_never(link) == FALSE

is_document_link(link) == DocExtOfUrl(link) # "none"

\* lines 438-449: the loop over the links up to the next document link;
\* r is [found, doc, todo]
RECURSIVE LinkLoop(_, _)
LinkLoop(todo, found) ==
    IF todo = <<>> THEN [found |-> found, doc |-> "none", todo |-> <<>>]
    ELSE LET link == Head(todo) IN
         IF ~InScope(link) THEN LinkLoop(Tail(todo), found)
         ELSE IF is_document_link(link)
         THEN [found |-> found, doc |-> link, todo |-> Tail(todo)]
         ELSE LinkLoop(Tail(todo), Append(found, link))

\* lines 438-456: the links are sorted into found_links and inline
\* downloads; at the end of the loop the page returns its links
ScrapeLinks(w) ==
    LET f == workers[w]
        r == LinkLoop(f.todo, f.found) IN
    /\ f.pc = "s_links"
    /\ UNCHANGED storeVars
    /\ IF r.doc = "none"
       THEN Frame(w, Finished([f EXCEPT !.found = r.found]))
       ELSE Frame(w, [f EXCEPT !.todo = r.todo, !.found = r.found, !.pc = "d_fetch",
                               !.doc = r.doc, !.ret = "links"])

\* lines 460-509: the request, the extension, the body streamed to the
\* temp file
DownFetch(w) ==
    LET f == workers[w]
        body == site[f.doc]
        ext == ExtensionFor(f.doc, body) IN
    /\ f.pc = "d_fetch"
    /\ UNCHANGED <<htmlFiles, htmlHashes, docFiles, docHashes, ledger>>
    /\ IF body = "none"
       THEN /\ UNCHANGED tempFiles
            /\ Frame(w, DownloadReturn(f))
       ELSE /\ tempFiles' = Put(tempFiles, <<hash_url(f.doc), ext>>, body)
            /\ Frame(w, [f EXCEPT !.pc = "d_check", !.ext = ext])

\* lines 511-516: hash_content(temp_file), then the global tier.  A temp
\* file that another thread renamed or unlinked raises, which line 548
\* turns into return False.
DownCheck(w) ==
    LET f == workers[w]
        temp == <<hash_url(f.doc), f.ext>> IN
    /\ f.pc = "d_check"
    /\ UNCHANGED <<htmlFiles, htmlHashes, docFiles, docHashes, ledger>>
    /\ IF temp \notin DOMAIN tempFiles
       THEN /\ UNCHANGED tempFiles
            /\ Frame(w, DownloadReturn(f))
       ELSE LET h == content_hash_of(tempFiles[temp]) IN
            IF KnownGlobally(h)
            THEN /\ tempFiles' = Del(tempFiles, {temp})
                 /\ Frame(w, DownloadReturn(f))
            ELSE /\ UNCHANGED tempFiles
                 /\ Frame(w, [f EXCEPT !.pc = "d_old", !.hash = h, !.old = "none"])

\* lines 518-525: the per-identifier tier
DownOld(w) ==
    LET f == workers[w]
        id == hash_url(f.doc)
        temp == <<id, f.ext>>
        old == load_content_hash(docHashes, id) IN
    /\ f.pc = "d_old"
    /\ UNCHANGED <<htmlFiles, htmlHashes, ledger>>
    /\ IF old # "none" /\ old = f.hash
       THEN /\ tempFiles' = Del(tempFiles, {temp})
            /\ UNCHANGED <<docFiles, docHashes>>
            /\ Frame(w, DownloadReturn(f))
       ELSE /\ IF old # "none"
               THEN /\ docFiles' = delete_old_docs(docFiles, id)
                    /\ docHashes' = Del(docHashes, {id})
               ELSE UNCHANGED <<docFiles, docHashes>>
            /\ UNCHANGED tempFiles
            /\ Frame(w, [f EXCEPT !.pc = "d_rename", !.old = old])

\* lines 527-528: temp_file.rename(final_file)
DownRename(w) ==
    LET f == workers[w]
        name == <<hash_url(f.doc), f.ext>> IN
    /\ f.pc = "d_rename"
    /\ UNCHANGED <<htmlFiles, htmlHashes, docHashes, ledger>>
    /\ IF name \notin DOMAIN tempFiles
       THEN /\ UNCHANGED <<tempFiles, docFiles>>
            /\ Frame(w, DownloadReturn(f))
       ELSE /\ docFiles' = Put(docFiles, name, tempFiles[name])
            /\ tempFiles' = Del(tempFiles, {name})
            /\ Frame(w, [f EXCEPT !.pc = "d_hash"])

\* line 530: save_content_hash
DownSaveHash(w) ==
    LET f == workers[w] IN
    /\ f.pc = "d_hash"
    /\ docHashes' = Put(docHashes, hash_url(f.doc), f.hash)
    /\ UNCHANGED <<htmlFiles, htmlHashes, docFiles, tempFiles, ledger>>
    /\ Frame(w, [f EXCEPT !.pc = "d_lock"])

\* lines 532-536 and 142-151: add_metadata_entry takes the lock and loads
\* the ledger
DownMetaLoad(w) ==
    LET f == workers[w] IN
    /\ f.pc = "d_lock"
    /\ MetadataLockFree(w)
    /\ UNCHANGED storeVars
    /\ Frame(w, [f EXCEPT !.pc = "d_meta", !.metadata = ledger])

\* lines 153-162: the entry is set, the ledger written and the lock
\* released; line 544: return True
DownMeta(w) ==
    LET f == workers[w] IN
    /\ f.pc = "d_meta"
    /\ ledger' = Put(f.metadata, hash_url(f.doc), MetadataEntry(f.doc, f.hash))
    /\ UNCHANGED <<htmlFiles, htmlHashes, docFiles, docHashes, tempFiles>>
    /\ Frame(w, DownloadReturn([f EXCEPT !.metadata = Empty]))

\* worker_scrape, lines 572-578: the steps of pool thread w
worker_scrape(w) ==
    \/ ScrapeFetch(w) \/ ScrapeReplace(w)
    \/ ScrapeSaveHash(w) \/ ScrapeMetaLoad(w) \/ ScrapeMeta(w)
    \/ ScrapeLinks(w)
    \/ DownFetch(w) \/ DownCheck(w) \/ DownOld(w) \/ DownRename(w)
    \/ DownSaveHash(w) \/ DownMetaLoad(w) \/ DownMeta(w)

Next ==
    \/ SiteChange
    \/ CrawlStart
    \/ DispatchLock
    \/ Dispatch
    \/ HarvestLock
    \/ Harvest
    \/ Return
    \/ \E w \in 1..NumWorkers : worker_scrape(w)

Spec == Init /\ [][Next]_vars

\* the crawl under fair scheduling: the main thread keeps running, and a
\* pool thread that can take a step takes it (a fetch ends with a response
\* or with its timeout)
SpecFair ==
    /\ Init /\ [][Next]_vars
    /\ WF_vars(DispatchLock) /\ WF_vars(Dispatch)
    /\ WF_vars(HarvestLock) /\ WF_vars(Harvest) /\ WF_vars(Return)
    /\ \A w \in 1..NumWorkers : WF_vars(worker_scrape(w))

(***************************************************************************)
(* Properties of the crawl store.                                          *)
(***************************************************************************)
Workers == 1..NumWorkers

\* the kept artifacts: a stored file together with its .hash sidecar
KeptHtml == {id \in DOMAIN htmlFiles : id \in DOMAIN htmlHashes}
KeptDocs == {n \in DOMAIN docFiles : n[1] \in DOMAIN docHashes}
KeptArtifacts ==
    {[kind |-> "html", name |-> <<id, ".html">>, hash |-> content_hash_of(htmlFiles[id])]
        : id \in KeptHtml}
    \cup {[kind |-> "doc", name |-> n, hash |-> content_hash_of(docFiles[n])]
        : n \in KeptDocs}

\* the hashes of all sidecars, read from the two directories
SidecarHashes ==
    {htmlHashes[id] : id \in DOMAIN htmlHashes} \cup {docHashes[id] : id \in DOMAIN docHashes}

ArtifactsOf(st) == [htmlFiles |-> st.htmlFiles, docFiles |-> st.docFiles,
                    htmlHashes |-> st.htmlHashes, docHashes |-> st.docHashes,
                    ledgerKeys |-> DOMAIN st.ledger]

\* C1: at every moment of a crawl, under any interleaving of the workers,
\* no two kept artifacts (file with sidecar) have the same content hash.
C1_NoDuplicateContent ==
    \A x, y \in KeptArtifacts : x.hash = y.hash => x.name = y.name

\* C5: when a crawl that repeats the previous one (same seeds, same
\* max_pages, every URL serving the same bytes) returns, the artifacts, the
\* sidecars and the ledger keys are those it started with.
C5_RecrawlIdempotent ==
    (mpc = "returned" /\ rerun) => ArtifactsOf(Store) = ArtifactsOf(startStore)

\* C6: a fetch whose content hash is in some sidecar (HTML or document,
\* any identifier) is discarded: the step that makes the check leaves
\* artifacts, sidecars and ledger as they are, removes the downloader's temp
\* file and ends the fetch.
C6_GlobalTierDiscards ==
    [][\A w \in Workers :
         LET f == workers[w]
             g == workers'[w] IN
         /\ ( /\ f.pc = "start" /\ g # f
              /\ site[f.url] \in HtmlBodies
              /\ ~IsDocumentResponse(f.url, site[f.url])
              /\ content_hash_of(site[f.url]) \in SidecarHashes )
            => ( /\ UNCHANGED storeVars
                 /\ g.pc = "done" /\ g.found = <<>> )
         /\ ( /\ f.pc = "d_check" /\ g # f
              /\ <<hash_url(f.doc), f.ext>> \in DOMAIN tempFiles
              /\ content_hash_of(tempFiles[<<hash_url(f.doc), f.ext>>]) \in SidecarHashes )
            => ( /\ UNCHANGED <<htmlFiles, htmlHashes, docFiles, docHashes, ledger>>
                 /\ <<hash_url(f.doc), f.ext>> \notin DOMAIN tempFiles'
                 /\ g.pc \in {"done", "s_links"} )
      ]_vars

\* witness of C6: a document fetched under one identifier was discarded
\* because its hash is the sidecar of another identifier; nothing is stored
\* under its own identifier and its temp file is gone.
C6_Witness ==
    \E w \in Workers :
        LET f == workers[w] IN
        /\ f.pc = "done" /\ f.ret = "top" /\ f.hash = "none"
        /\ site[f.doc] \in BinBodies
        /\ \E id \in DOMAIN docHashes : id # hash_url(f.doc) /\ docHashes[id] = site[f.doc]
        /\ hash_url(f.doc) \notin DOMAIN docHashes
        /\ hash_url(f.doc) \notin DOMAIN ledger
        /\ \A n \in DOMAIN tempFiles : n[1] # hash_url(f.doc)
        /\ \A n \in DOMAIN docFiles : n[1] # hash_url(f.doc)

C8_DuplicateRecorded ==
    mpc = "returned" =>
        \A u \in visited_urls, k \in DOMAIN htmlFiles :
            (k # hash_url(u) /\ site[u] \in HtmlBodies /\ htmlFiles[k] = site[u]
                /\ k \in DOMAIN htmlHashes)
            => ( /\ hash_url(u) \notin DOMAIN htmlFiles
                 /\ hash_url(u) \in DOMAIN ledger
                 /\ ledger[hash_url(u)].duplicate_of = k )

\* C10: total_pages never exceeds max_pages, and a crawl with max_pages = 1
\* from one seed page with 5 in-scope links returns with total_pages = 1,
\* the seed being the only URL visited.
C10_MaxPages ==
    /\ stats.total_pages <= max_pages
    /\ Cardinality(visited_urls) = stats.total_pages
    /\ ( /\ mpc = "returned" /\ max_pages = 1 /\ Len(start_urls) = 1
         /\ Len(LinksOf(site[start_urls[1]])) = 5 )
       => ( /\ stats.total_pages = 1
            /\ visited_urls = {start_urls[1]}
            /\ \A i \in 1..5 : LinksOf(site[start_urls[1]])[i] \notin visited_urls )

\* witness of C10: the crawl with max_pages = 1 has returned after its seed
\* page was harvested: the five links are queued and unvisited.
C10_Witness ==
    /\ mpc = "returned" /\ max_pages = 1 /\ start_urls = <<"a">>
    /\ site["a"] = "h5"
    /\ stats.total_pages = 1
    /\ urls_to_visit = LinksOf("h5")
    /\ "a" \in DOMAIN htmlFiles

\* the URLs of the running crawl whose request fails
FailedFetches == {u \in visited_urls : runSite[u] = "none"}

\* C11: a page whose fetch fails is counted in stats.errors and not in
\* stats.pages_scraped: when a crawl has returned, pages_scraped is at most
\* the number of dispatched URLs that answered, and when every dispatched
\* URL was harvested, errors is the number of those that did not answer.
C11_FetchErrorCounted ==
    mpc = "returned" =>
        /\ stats.pages_scraped <= Cardinality(visited_urls \ FailedFetches)
        /\ stats.pages_scraped + stats.errors = stats.total_pages
              => stats.errors = Cardinality(FailedFetches)

\* number of places of sequence s that hold x
Count(s, x) == Cardinality({i \in 1..Len(s) : s[i] = x})

\* C12: a URL is handed to a worker only if it is not in visited_urls, it
\* is put there at once and stays there up to the end of the invocation, so
\* no two futures of one invocation carry one URL; the frontier holds, next
\* to the seeds, only in-scope links, and a URL is twice in the frontier
\* only as a seed listed twice in start_urls.
C12_DispatchOnce ==
    [][ /\ Len(futures') > Len(futures)
            => LET u == workers'[futures'[Len(futures')]].url IN
               u \notin visited_urls /\ u \in visited_urls'
        /\ crawlNo' = crawlNo => visited_urls \subseteq visited_urls'
        /\ \A v, w \in Workers :
               (v # w /\ workers'[v].pc # "idle" /\ workers'[w].pc # "idle")
                  => workers'[v].url # workers'[w].url
        /\ \A i \in 1..Len(urls_to_visit') :
               LET u == urls_to_visit'[i] IN
               /\ u \in SeqToSet(start_urls') \/ InScope(u)
               /\ Count(urls_to_visit', u) > 1
                     => Count(urls_to_visit', u) <= Count(start_urls', u)
        /\ (mpc \in {"dispatch", "enqueue"}
                /\ Len(urls_to_visit') > Len(urls_to_visit))
            => \A i \in Len(urls_to_visit) + 1..Len(urls_to_visit') :
                  LET u == urls_to_visit'[i] IN
                  /\ u \notin visited_urls
                  /\ u \notin SeqToSet(urls_to_visit)
                  /\ Count(urls_to_visit', u) = 1
      ]_vars

\* witness of C12: a crawl from the seeds a, a, b has returned; a and b
\* were each fetched and harvested once, the link from a to b and the link
\* from b to a were not put in the frontier.
C12_Witness ==
    /\ mpc = "returned" /\ start_urls = <<"a", "a", "b">>
    /\ runSite["a"] = "h1" /\ runSite["b"] = "h3"
    /\ visited_urls = {"a", "b"}
    /\ stats.total_pages = 2 /\ stats.pages_scraped = 2
    /\ urls_to_visit = <<>>
    /\ {hash_url("a"), hash_url("b")} \subseteq DOMAIN htmlFiles

\* C13: add_metadata_entry runs under _metadata_lock from the load to the
\* write: at most one thread is inside, no step takes an identifier out of
\* the ledger, and the step that writes the ledger leaves in it the entry of
\* the writer next to every entry that was there.
C13_LedgerLock ==
    [][ /\ Cardinality({v \in Workers : workers'[v].pc \in {"s_meta", "d_meta"}}) <= 1
        /\ DOMAIN ledger \subseteq DOMAIN ledger'
        /\ \A w \in Workers :
              LET f == workers[w] IN
              /\ (f.pc = "s_meta" /\ workers'[w] # f)
                    => /\ hash_url(f.url) \in DOMAIN ledger'
                       /\ ledger'[hash_url(f.url)] = MetadataEntry(f.url, f.hash)
              /\ (f.pc = "d_meta" /\ workers'[w] # f)
                    => /\ hash_url(f.doc) \in DOMAIN ledger'
                       /\ ledger'[hash_url(f.doc)] = MetadataEntry(f.doc, f.hash)
      ]_vars

\* witness of C13: one thread is inside add_metadata_entry while another
\* waits for the lock, and the ledger the first one loaded is not empty.
C13_Witness ==
    \E v, w \in Workers :
        /\ workers[v].pc \in {"s_meta", "d_meta"}
        /\ workers[w].pc \in {"s_lock", "d_lock"}
        /\ workers[v].metadata # Empty

(***************************************************************************)
(* The two normalize_text functions.  A string is a sequence of            *)
(* characters; the characters of the model are one lower-case and one      *)
(* upper-case letter, an accented letter, a non-ASCII sign that has no     *)
(* ASCII decomposition, a punctuation mark, space, tab and newline.        *)
(***************************************************************************)
MaxTextLen == 3

Alphabet == {"a", "B", "e_acute", "euro", ".", " ", "TAB", "NL"}
Punctuation == {"."}                 \* string.punctuation
Whitespace == {" ", "TAB", "NL"}     \* \s, and what str.strip() removes

Texts == UNION {[1..n -> Alphabet] : n \in 0..MaxTextLen}

RECURSIVE FlatMap(_, _)
FlatMap(Op(_), s) == IF s = <<>> THEN <<>> ELSE Op(Head(s)) \o FlatMap(Op, Tail(s))

\* text.lower()
LowerChar(c) == IF c = "B" THEN <<"b">> ELSE <<c>>
Lower(s) == FlatMap(LowerChar, s)

\* unicodedata.normalize('NFKD', text).encode('ascii', 'ignore').decode('utf-8')
AsciiChar(c) ==
    IF c = "e_acute" THEN <<"e">> ELSE IF c = "euro" THEN <<>> ELSE <<c>>
AsciiFold(s) == FlatMap(AsciiChar, s)

RECURSIVE DropWhile(_, _)
DropWhile(s, Class) ==
    IF s # <<>> /\ Head(s) \in Class THEN DropWhile(Tail(s), Class) ELSE s

RECURSIVE DropWhileRight(_, _)
DropWhileRight(s, Class) ==
    IF s # <<>> /\ s[Len(s)] \in Class
    THEN DropWhileRight(SubSeq(s, 1, Len(s) - 1), Class) ELSE s

\* str.strip()
Strip(s) == DropWhileRight(DropWhile(s, Whitespace), Whitespace)

\* re.sub(r'[<Class>]+', r, text)
RECURSIVE SubRuns(_, _, _)
SubRuns(s, Class, r) ==
    IF s = <<>> THEN <<>>
    ELSE IF Head(s) \in Class THEN <<r>> \o SubRuns(DropWhile(s, Class), Class, r)
    ELSE <<Head(s)>> \o SubRuns(Tail(s), Class, r)

\* text.translate(str.maketrans('', '', string.punctuation))
DeletePunctuation(s) == SelectSeq(s, LAMBDA c : c \notin Punctuation)

\* text.split('\n')
RECURSIVE SplitLines(_)
SplitLines(s) ==
    IF \A i \in 1..Len(s) : s[i] # "NL" THEN <<s>>
    ELSE LET i == CHOOSE j \in 1..Len(s) :
                     s[j] = "NL" /\ \A k \in 1..(j - 1) : s[k] # "NL" IN
         <<SubSeq(s, 1, i - 1)>> \o SplitLines(SubSeq(s, i + 1, Len(s)))

\* "\n".join(lines)
RECURSIVE JoinLines(_)
JoinLines(lines) ==
    IF Len(lines) = 1 THEN lines[1]
    ELSE lines[1] \o <<"NL">> \o JoinLines(Tail(lines))

StripEach(lines) == [i \in 1..Len(lines) |-> Strip(lines[i])]

\* generic_chunk_embed.py, lines 40-47: the build-time normalization
normalize_text_build(text) ==
    LET t1 == Lower(text)
        t2 == AsciiFold(t1)
        t3 == DeletePunctuation(t2)
        t4 == SubRuns(t3, {" ", "TAB"}, " ")
        t5 == JoinLines(StripEach(SplitLines(t4))) IN
    Strip(t5)

\* utils/text_helpers.py, lines 5-9: the query-time normalization
normalize_text_query(text) ==
    LET t1 == Lower(text)
        t2 == AsciiFold(t1)
        t3 == SubRuns(t2, Punctuation \cup Whitespace, " ") IN
    Strip(t3)

InitNorm ==
    /\ StoreEmpty /\ site = NoSite /\ CrawlAtRest
    /\ DedupAtRest /\ IndexAtRest /\ ChatAtRest /\ RetryAtRest /\ AuthAtRest
    /\ nText \in Texts
    /\ nBuild = <<>> /\ nQuery = <<>> /\ nDone = {}

\* create_vector_store / get_hybrid_chunks normalize a chunk text
NormalizeAtBuild ==
    /\ "build" \notin nDone
    /\ nBuild' = normalize_text_build(nText)
    /\ nDone' = nDone \cup {"build"}
    /\ UNCHANGED <<nText, nQuery>>
    /\ UNCHANGED <<storeVars, crawlVars, dedupVars, indexVars, chatVars, retryVars, authVars>>

\* _find_relevant_chunks normalizes the query
NormalizeAtQuery ==
    /\ "query" \notin nDone
    /\ nQuery' = normalize_text_query(nText)
    /\ nDone' = nDone \cup {"query"}
    /\ UNCHANGED <<nText, nBuild>>
    /\ UNCHANGED <<storeVars, crawlVars, dedupVars, indexVars, chatVars, retryVars, authVars>>

NextNorm == NormalizeAtBuild \/ NormalizeAtQuery

SpecNorm == InitNorm /\ [][NextNorm]_vars

\* C3: on every input string the build-time and the query-time
\* normalization return the same output.
C3_NormalizationSymmetry ==
    nDone = {"build", "query"} => nBuild = nQuery

(***************************************************************************)
(* create_vector_store of generic_chunk_embed.py.                          *)
(*                                                                         *)
(* A Markdown file of the corpus is described by what the code reads of    *)
(* it: whether it can be read, len(content), its token count, and for a    *)
(* long file the final chunks of the two splitters (the header            *)
(* breadcrumb and len(page_content.strip()) of each) or the failure of     *)
(* the splitters.  File names are 1, 2, ... in the order of glob.          *)
(***************************************************************************)
MaxFiles == 2
\* the chunks of one embedding request (150 in the source, scaled to the
\* corpus of the model)
BATCH_SIZE == 2
MIN_CHAR_COUNT == 20
TOKEN_THRESHOLD_FOR_HYBRID_CHUNKING == 8000

FileChoices ==
    { [readable |-> FALSE, len |-> 0, tokens |-> 0, splits |-> <<>>, countOk |-> TRUE, splitOk |-> TRUE],
      [readable |-> TRUE, len |-> 19, tokens |-> 5, splits |-> <<>>, countOk |-> TRUE, splitOk |-> TRUE],
      [readable |-> TRUE, len |-> 20, tokens |-> 6, splits |-> <<>>, countOk |-> TRUE, splitOk |-> TRUE],
      [readable |-> TRUE, len |-> 30000, tokens |-> 8000, splits |-> <<>>, countOk |-> TRUE, splitOk |-> TRUE],
      [readable |-> TRUE, len |-> 30001, tokens |-> 8001,
       splits |-> << [title |-> "T1", len |-> 1500], [title |-> "T1", len |-> 19],
                     [title |-> "T1 - T2", len |-> 20] >>, countOk |-> TRUE, splitOk |-> TRUE],
      [readable |-> TRUE, len |-> 30002, tokens |-> 8001, splits |-> <<>>, countOk |-> TRUE, splitOk |-> FALSE],
      [readable |-> TRUE, len |-> 8001, tokens |-> 0,
       splits |-> << [title |-> "", len |-> 7996], [title |-> "", len |-> 5] >>,
       countOk |-> FALSE, splitOk |-> TRUE] }

Corpora ==
    UNION { {[i \in 1..n |-> [name |-> i, file |-> c[i]]] : c \in [1..n -> FileChoices]}
              : n \in 0..MaxFiles }

\* the text of a chunk as stored: which document, which part of it (0: the
\* whole document), its breadcrumb and the length of its
\* content
WholeText(name, file) == [doc |-> name, part |-> 0, title |-> "none", len |-> file.len]
\* f"{concatenated_title}\n{chunk.page_content}"
ChunkText(name, k, chunk) ==
    [doc |-> name, part |-> k, title |-> chunk.title, len |-> chunk.len]

\* normalize_text, lines 40-47, on a stored text
Normalized(text) == <<"normalized", text>>
\* transform_source_path, lines 49-51
transform_source_path(name) == <<"source", name>>
\* one vector of embed_documents
Embedding(normalized) == <<"vector", normalized>>

\* line 131: len(content) < MIN_CHAR_COUNT
FileTooShort(file) == file.len < MIN_CHAR_COUNT

\* line 79: len(chunk.page_content.strip()) < MIN_CHAR_COUNT
ChunkTooShortNever(chunk) == FALSE

ChunkTooShort(chunk) == chunk.len < MIN_CHAR_COUNT

NoLists == [embed |-> <<>>, store |-> <<>>, meta |-> <<>>]

\* mutant: the metadata of a chunk is appended before the length test
RECURSIVE hybrid_loop_meta_first(_, _, _, _)
hybrid_loop_meta_first(name, chunks, k, acc) ==
    IF chunks = <<>> THEN acc
    ELSE LET chunk == Head(chunks)
             text == ChunkText(name, k, chunk)
             meta == [source |-> transform_source_path(name),
                      titre_concatene |-> chunk.title] IN
         hybrid_loop_meta_first(name, Tail(chunks), k + 1,
            IF chunk.len < MIN_CHAR_COUNT
            THEN [acc EXCEPT !.meta = Append(@, meta)]
            ELSE [embed |-> Append(acc.embed, Normalized(text)),
                  store |-> Append(acc.store, text),
                  meta |-> Append(acc.meta, meta)])

\* get_hybrid_chunks, lines 78-100: the loop over final_chunks
RECURSIVE hybrid_loop(_, _, _, _)
hybrid_loop(name, chunks, k, acc) ==
    IF chunks = <<>> THEN acc
    ELSE LET chunk == Head(chunks)
             text == ChunkText(name, k, chunk) IN
         hybrid_loop(name, Tail(chunks), k + 1,
            IF ChunkTooShort(chunk)
            THEN acc
            ELSE [embed |-> Append(acc.embed, Normalized(text)),
                  store |-> Append(acc.store, text),
                  meta |-> Append(acc.meta,
                             [source |-> transform_source_path(name),
                              titre_concatene |-> chunk.title])])

\* get_hybrid_chunks, lines 55-100
get_hybrid_chunks(name, file) == hybrid_loop(name, file.splits, 1, NoLists)

\* lines 135-141: the token count, or the length where counting fails
num_tokens(file) == IF file.countOk THEN file.tokens ELSE file.len

\* line 143: the file is long enough for the hybrid chunking
UsesHybridNever(file) == FALSE

UsesHybrid(file) == num_tokens(file) > TOKEN_THRESHOLD_FOR_HYBRID_CHUNKING

\* the store an earlier build has left: one short document
OldText == [doc |-> 0, part |-> 0, title |-> "none", len |-> 40]
OldIndexFile ==
    [exists |-> TRUE, build |-> "old", loadable |-> TRUE,
     vectors |-> << [id |-> 0, vec |-> Embedding(Normalized(OldText))] >>]
OldMappingFile ==
    [exists |-> TRUE, build |-> "old", loadable |-> TRUE, texts |-> <<OldText>>,
     metadata |-> << [source |-> transform_source_path(0)] >>]

\* mutant: the vectors of a failed batch are filled in and the loop goes on
BatchFailurePadded(embs, batch_texts) ==
    [ipc |-> "embed", embeddings |-> embs \o [j \in 1..Len(batch_texts) |-> <<"zeros">>]]

\* lines 174-176: the except clause of a batch
BatchFailure(embs, batch_texts) == [ipc |-> "aborted", embeddings |-> embs]

InitIndex ==
    /\ StoreEmpty /\ site = NoSite /\ CrawlAtRest
    /\ DedupAtRest /\ NormAtRest /\ ChatAtRest /\ RetryAtRest /\ AuthAtRest
    /\ markdown_files \in Corpora
    /\ all_texts_for_embedding = <<>> /\ all_texts_for_storage = <<>>
    /\ all_chunk_metadata = <<>> /\ embeddings = <<>>
    /\ ipc = "idle"
    /\ \E old \in BOOLEAN :
          /\ idxFile = IF old THEN OldIndexFile ELSE NoIndexFile
          /\ mapFile = IF old THEN OldMappingFile ELSE NoMappingFile

IndexFrame ==
    UNCHANGED <<storeVars, crawlVars, dedupVars, normVars, chatVars, retryVars, authVars>>

\* lines 104-123: the embedding model is created (or not), the corpus is
\* listed
StartBuild ==
    /\ ipc = "idle"
    /\ \E modelOk \in BOOLEAN :
          ipc' = IF ~modelOk \/ markdown_files = <<>> THEN "returned" ELSE "scan"
    /\ UNCHANGED <<markdown_files, all_texts_for_embedding, all_texts_for_storage,
                   all_chunk_metadata, embeddings, idxFile, mapFile>>
    /\ IndexFrame

\* lines 125-159: one iteration of the loop over the files
ProcessFile ==
    /\ ipc = "scan"
    /\ markdown_files # <<>>
    /\ LET name == Head(markdown_files).name
           file == Head(markdown_files).file IN
       /\ markdown_files' = Tail(markdown_files)
       /\ IF ~file.readable \/ FileTooShort(file)
          THEN UNCHANGED <<all_texts_for_embedding, all_texts_for_storage,
                           all_chunk_metadata>>
          ELSE IF UsesHybrid(file)
          THEN IF ~file.splitOk
               THEN UNCHANGED <<all_texts_for_embedding, all_texts_for_storage,
                                all_chunk_metadata>>
               ELSE LET r == get_hybrid_chunks(name, file) IN
                    /\ all_texts_for_embedding' = all_texts_for_embedding \o r.embed
                    /\ all_texts_for_storage' = all_texts_for_storage \o r.store
                    /\ all_chunk_metadata' = all_chunk_metadata \o r.meta
          ELSE /\ all_texts_for_embedding' =
                      Append(all_texts_for_embedding, Normalized(WholeText(name, file)))
               /\ all_texts_for_storage' =
                      Append(all_texts_for_storage, WholeText(name, file))
               /\ all_chunk_metadata' =
                      Append(all_chunk_metadata,
                             [source |-> transform_source_path(name)])
    /\ UNCHANGED <<embeddings, ipc, idxFile, mapFile>>
    /\ IndexFrame

\* lines 161-165
EndScan ==
    /\ ipc = "scan"
    /\ markdown_files = <<>>
    /\ ipc' = IF all_texts_for_embedding = <<>> THEN "returned" ELSE "embed"
    /\ UNCHANGED <<markdown_files, all_texts_for_embedding, all_texts_for_storage,
                   all_chunk_metadata, embeddings, idxFile, mapFile>>
    /\ IndexFrame

\* lines 167-176: one batch; i is the number of texts embedded so far
EmbedBatch ==
    /\ ipc = "embed"
    /\ Len(embeddings) < Len(all_texts_for_embedding)
    /\ LET i == Len(embeddings)
           last == IF i + BATCH_SIZE < Len(all_texts_for_embedding)
                   THEN i + BATCH_SIZE ELSE Len(all_texts_for_embedding)
           batch_texts == SubSeq(all_texts_for_embedding, i + 1, last) IN
       \E ok \in BOOLEAN :
          IF ok
          THEN /\ embeddings' = embeddings \o
                      [j \in 1..Len(batch_texts) |-> Embedding(batch_texts[j])]
               /\ ipc' = "embed"
          ELSE /\ ipc' = BatchFailure(embeddings, batch_texts).ipc
               /\ embeddings' = BatchFailure(embeddings, batch_texts).embeddings
    /\ UNCHANGED <<markdown_files, all_texts_for_embedding, all_texts_for_storage,
                   all_chunk_metadata, idxFile, mapFile>>
    /\ IndexFrame

\* lines 178-188: the index is built with ids = arange(N) and written;
\* add_with_ids raises unless there are as many vectors as ids
WriteIndex ==
    /\ ipc = "embed"
    /\ Len(embeddings) >= Len(all_texts_for_embedding)
    /\ \E ok \in BOOLEAN :
          IF ok /\ Len(embeddings) = Len(all_texts_for_embedding)
          THEN /\ idxFile' = [exists |-> TRUE, build |-> "new", loadable |-> TRUE,
                              vectors |-> [j \in 1..Len(embeddings) |->
                                             [id |-> j - 1, vec |-> embeddings[j]]]]
               /\ ipc' = "write_mapping"
          ELSE /\ UNCHANGED idxFile
               /\ ipc' = "save_failed"
    /\ UNCHANGED <<markdown_files, all_texts_for_embedding, all_texts_for_storage,
                   all_chunk_metadata, embeddings, mapFile>>
    /\ IndexFrame

\* lines 190-197: the mapping is pickled; open() fails and leaves the file
\* as it was, or pickle.dump fails in the file that open() has truncated
WriteMapping ==
    /\ ipc = "write_mapping"
    /\ \E outcome \in {"ok", "open_fails", "dump_fails"} :
          /\ mapFile' =
                CASE outcome = "ok" ->
                        [exists |-> TRUE, build |-> "new", loadable |-> TRUE,
                         texts |-> all_texts_for_storage,
                         metadata |-> all_chunk_metadata]
                  [] outcome = "open_fails" -> mapFile
                  [] outcome = "dump_fails" ->
                        [exists |-> TRUE, build |-> "new", loadable |-> FALSE,
                         texts |-> <<>>, metadata |-> <<>>]
          /\ ipc' = IF outcome = "ok" THEN "done" ELSE "save_failed"
    /\ UNCHANGED <<markdown_files, all_texts_for_embedding, all_texts_for_storage,
                   all_chunk_metadata, embeddings, idxFile>>
    /\ IndexFrame

NextIndex ==
    StartBuild \/ ProcessFile \/ EndScan \/ EmbedBatch \/ WriteIndex \/ WriteMapping

SpecIndex == InitIndex /\ [][NextIndex]_vars

\* position i of the three lists describes one chunk
SameChunk(embedText, storeText, meta) ==
    /\ embedText = Normalized(storeText)
    /\ meta.source = transform_source_path(storeText.doc)
    /\ ("titre_concatene" \in DOMAIN meta) = (storeText.part # 0)
    /\ storeText.part # 0 => meta.titre_concatene = storeText.title

\* the stored texts are in chunk insertion order
InsertionOrder(texts) ==
    \A i, j \in 1..Len(texts) :
        i < j => \/ texts[i].doc < texts[j].doc
                 \/ texts[i].doc = texts[j].doc /\ texts[i].part < texts[j].part

\* C2: throughout create_vector_store the three lists have one length and
\* position i of each describes the same chunk; the store that a run has
\* saved holds the vectors under the ids 0..N-1 in insertion order, and
\* vector i, texts[i] and metadata[i] describe the same chunk.
C2_IndexAlignment ==
    /\ Len(all_texts_for_embedding) = Len(all_texts_for_storage)
    /\ Len(all_texts_for_storage) = Len(all_chunk_metadata)
    /\ \A i \in 1..Len(all_texts_for_storage) :
          SameChunk(all_texts_for_embedding[i], all_texts_for_storage[i],
                    all_chunk_metadata[i])
    /\ InsertionOrder(all_texts_for_storage)
    /\ ipc = "done" =>
          /\ idxFile.exists /\ mapFile.exists
          /\ Len(idxFile.vectors) = Len(mapFile.texts)
          /\ Len(mapFile.texts) = Len(mapFile.metadata)
          /\ mapFile.texts = all_texts_for_storage
          /\ \A i \in 1..Len(idxFile.vectors) :
                /\ idxFile.vectors[i].id = i - 1
                /\ idxFile.vectors[i].vec = Embedding(Normalized(mapFile.texts[i]))
                /\ SameChunk(Normalized(mapFile.texts[i]), mapFile.texts[i],
                             mapFile.metadata[i])

\* the run is over
BuildEnded == ipc \in {"returned", "aborted", "save_failed", "done"}

\* C14: a run in which an embedding batch failed has written neither the
\* index file nor the mapping file, and an index file that a run has
\* written holds the vector of every chunk of that run.
C14_NoPartialIndex ==
    /\ ipc = "aborted" => idxFile.build # "new" /\ mapFile.build # "new"
    /\ idxFile.build = "new" =>
          /\ Len(idxFile.vectors) = Len(all_texts_for_embedding)
          /\ \A i \in 1..Len(idxFile.vectors) :
                idxFile.vectors[i].vec = Embedding(all_texts_for_embedding[i])
    /\ ipc \in {"scan", "embed"} => idxFile.build # "new" /\ mapFile.build # "new"

\* witness of C14: the second batch of a run over an old store failed
\* after the first had succeeded, and the old store is still in place.
C14_Witness ==
    /\ ipc = "aborted"
    /\ Len(embeddings) = BATCH_SIZE
    /\ Len(all_texts_for_embedding) > BATCH_SIZE
    /\ idxFile = OldIndexFile /\ mapFile = OldMappingFile

\* C15: when a run of create_vector_store is over, however it ended, the
\* index file and the mapping file come from one build and hold as many
\* vectors as texts and metadata.
C15_AtomicRebuild ==
    BuildEnded =>
        /\ idxFile.build = mapFile.build
        /\ idxFile.exists = mapFile.exists
        /\ Len(idxFile.vectors) = Len(mapFile.texts)
        /\ Len(mapFile.texts) = Len(mapFile.metadata)

\* witness of C2: a store was saved from a corpus in which one file could
\* not be processed and one long file lost a chunk to the length floor.
C2_Witness ==
    /\ ipc = "done"
    /\ Len(mapFile.texts) = 2
    /\ mapFile.texts[1].part = 1 /\ mapFile.texts[2].part = 3
    /\ mapFile.texts[1].doc = 2
    /\ Len(idxFile.vectors) = 2

(***************************************************************************)
(* deduplicate_markdown_files and deduplicate_converted_documents of       *)
(* scraping_pipeline.py.                                                   *)
(*                                                                         *)
(* A file name is the sequence of its code points, so that sorted() on    *)
(* names is the comparison Python makes; a folder maps the names of its    *)
(* *.md files to the text read_text returns.                               *)
(***************************************************************************)
MaxDedupRuns == 3

DotMd == <<46, 109, 100>>                  \* ".md"
HtmlNames == { <<66>> \o DotMd,            \* "B.md"
               <<97>> \o DotMd,            \* "a.md"
               <<97, 45, 98>> \o DotMd,    \* "a-b.md"
               <<97, 95, 98>> \o DotMd }   \* "a_b.md"
DocNames == { <<97>> \o DotMd, <<97, 45, 98>> \o DotMd, <<97, 98>> \o DotMd }
MdTexts == {"t1", "t2"}
Folders(names) == UNION { [D -> MdTexts] : D \in SUBSET names }

\* str.__lt__: by code point, a proper prefix first
RECURSIVE LexLess(_, _)
LexLess(a, b) ==
    IF a = <<>> THEN b # <<>>
    ELSE IF b = <<>> THEN FALSE
    ELSE IF Head(a) # Head(b) THEN Head(a) < Head(b)
    ELSE LexLess(Tail(a), Tail(b))

\* mutant: the names in descending order
RECURSIVE sorted_descending(_)
sorted_descending(files) ==
    IF files = {} THEN <<>>
    ELSE LET last == CHOOSE n \in files : \A m \in files : m = n \/ LexLess(m, n) IN
         <<last>> \o sorted_descending(files \ {last})

\* sorted(files, key=lambda f: f.name)
RECURSIVE sorted_by_name(_)
sorted_by_name(files) ==
    IF files = {} THEN <<>>
    ELSE LET first == CHOOSE n \in files : \A m \in files : m = n \/ LexLess(n, m) IN
         <<first>> \o sorted_by_name(files \ {first})

\* lines 909-920: the files of the folder by content hash, and the groups
\* of more than one file
FilesWithHash(folder, h) == {n \in DOMAIN folder : content_hash_of(folder[n]) = h}
duplicate_groups(folder) ==
    {h \in {content_hash_of(t) : t \in Range(folder)} :
        Cardinality(FilesWithHash(folder, h)) > 1}

\* lines 935-938
kept_file(folder, h) == Head(sorted_by_name(FilesWithHash(folder, h)))
files_to_remove(folder, h) == SeqToSet(Tail(sorted_by_name(FilesWithHash(folder, h))))
AllRemoved(folder) == UNION {files_to_remove(folder, h) : h \in duplicate_groups(folder)}

\* lines 946-952: the ledger entries that name a removed file under the key
\* of the folder are marked
MarkRemoved(meta, key, folder) ==
    [u \in DOMAIN meta |->
        IF key \in DOMAIN meta[u] /\ meta[u][key] \in AllRemoved(folder)
        THEN [f \in DOMAIN meta[u] \cup {"status", "duplicate_of"} |->
                IF f = "status" THEN "duplicate_removed"
                ELSE IF f = "duplicate_of"
                THEN kept_file(folder, content_hash_of(folder[meta[u][key]]))
                ELSE meta[u][f]]
        ELSE meta[u]]

\* the value returned, lines 922-928 and 959-964 (removed_files as a set:
\* the order of the groups is the order of glob)
DedupResult(name, dry_run, folder) ==
    [folder |-> name, dry_run |-> dry_run,
     duplicate_groups |-> Cardinality(duplicate_groups(folder)),
     files_kept |-> Cardinality(duplicate_groups(folder)),
     files_removed |-> Cardinality(AllRemoved(folder)),
     removed_files |-> AllRemoved(folder)]

\* the pages a crawl has left in html_brut: response.text of every URL that
\* was answered without a document Content-Type, whatever the bytes were.
\* Each page has its sidecar and its ledger entry but for one, which a crawl
\* that was interrupted after line 424 left alone.
OnePage == [a |-> "h1"]
CleanPages ==
    { [a |-> "h1", b |-> "k1"],
      [a |-> "k1", b |-> "k2", l1 |-> "x1", l2 |-> "u1"] }
\* the folder in which every file has the same text
AllAlike(names) == [n \in names |-> "t1"]
Interrupted == {"l1"}

\* the store a crawl has left
InitDedup ==
    /\ \/ /\ htmlFiles = OnePage
          /\ mdHtml \in Folders(HtmlNames)
          /\ mdDocs \in Folders(DocNames)
       \/ /\ htmlFiles \in CleanPages
          /\ mdHtml = AllAlike(HtmlNames)
          /\ mdDocs = AllAlike(DocNames)
    /\ htmlHashes = [id \in DOMAIN htmlFiles \ Interrupted |->
                        content_hash_of(htmlFiles[id])]
    /\ docFiles = Empty /\ docHashes = Empty /\ tempFiles = Empty
    /\ ledger = [id \in DOMAIN htmlFiles \ Interrupted |->
                    MetadataEntry(id, content_hash_of(htmlFiles[id]))]
    /\ corrupted_dir = Empty /\ clean_stats = NoCleanStats /\ clean_runs = 0
    /\ site = NoSite /\ CrawlAtRest
    /\ IndexAtRest /\ NormAtRest /\ ChatAtRest /\ RetryAtRest /\ AuthAtRest
    /\ dResult = NoResult /\ dRuns = 0

DedupFrame ==
    UNCHANGED <<htmlFiles, htmlHashes, docFiles, docHashes, tempFiles,
                corrupted_dir, clean_stats, clean_runs,
                crawlVars, indexVars, normVars, chatVars, retryVars, authVars>>

\* "if not dry_run", lines 815, 946 and 1136, with the mutant that acts in
\* every pass
ActsAlways(dry_run) == TRUE

Acts(dry_run) == ~dry_run

\* lines 898-964
deduplicate_markdown_files ==
    /\ dRuns < MaxDedupRuns
    /\ \E dry_run \in BOOLEAN :
          /\ dResult' = DedupResult("converted_html", dry_run, mdHtml)
          /\ IF ~Acts(dry_run) \/ duplicate_groups(mdHtml) = {}
             THEN UNCHANGED <<mdHtml, ledger>>
             ELSE /\ mdHtml' = Del(mdHtml, AllRemoved(mdHtml))
                  /\ ledger' = MarkRemoved(ledger, "markdown_file", mdHtml)
    /\ dRuns' = dRuns + 1
    /\ UNCHANGED mdDocs
    /\ DedupFrame

\* lines 1088-1154
deduplicate_converted_documents ==
    /\ dRuns < MaxDedupRuns
    /\ \E dry_run \in BOOLEAN :
          /\ dResult' = DedupResult("converted_documents", dry_run, mdDocs)
          /\ IF ~Acts(dry_run) \/ duplicate_groups(mdDocs) = {}
             THEN UNCHANGED <<mdDocs, ledger>>
             ELSE /\ mdDocs' = Del(mdDocs, AllRemoved(mdDocs))
                  /\ ledger' = MarkRemoved(ledger, "converted_document", mdDocs)
    /\ dRuns' = dRuns + 1
    /\ UNCHANGED mdHtml
    /\ DedupFrame

(***************************************************************************)
(* clean_corrupted_html_files, lines 761-834.                              *)
(***************************************************************************)
MaxCleanRuns == 2

\* f.read(10) of a page of html_brut: the first ten bytes of the body
first_bytes(body) ==
    CASE body = "k1" -> <<37, 80, 68, 70, 45, 49, 46, 52, 10, 37>>        \* %PDF-1.4
      [] body = "k2" -> <<80, 75, 3, 4, 20, 0, 6, 0, 8, 0>>               \* PK, a zip
      [] body = "x1" -> <<208, 207, 17, 224, 161, 177, 26, 225, 0, 0>>    \* an OLE2 file
      [] body = "u1" -> <<239, 187, 191, 60, 104, 116, 109, 108, 62, 10>> \* BOM, <html>
      [] OTHER -> <<60, 104, 116, 109, 108, 62, 60, 98, 111, 100>>        \* <html><bod

\* bytes.startswith
StartsWith(bytes, prefix) ==
    Len(bytes) >= Len(prefix) /\ SubSeq(bytes, 1, Len(prefix)) = prefix

MagicPdf == <<37, 80, 68, 70>>     \* b'%PDF'
MagicZip == <<80, 75>>             \* b'PK'

\* line 801: the bytes outside the printable ASCII range
NonPrintable(bytes) ==
    Cardinality({i \in 1..Len(bytes) : bytes[i] < 32 \/ bytes[i] > 126})

\* mutant: only the PDF test
corruption_type_pdf_only(bytes) ==
    IF StartsWith(bytes, MagicPdf) THEN "PDF" ELSE "none"

\* lines 788-804: is_corrupted and corruption_type ("none": not corrupted)
corruption_type(bytes) ==
    IF StartsWith(bytes, MagicPdf) THEN "PDF"
    ELSE IF StartsWith(bytes, MagicZip) THEN "ZIP/Office"
    ELSE IF NonPrintable(bytes) > 5 THEN "Binaire"
    ELSE "none"

\* lines 791, 796, 801 and 807-811: the file is counted and reported
Counted(cs, id, type) ==
    [cs EXCEPT
        !.corrupted_pdf = @ + (IF type = "PDF" THEN 1 ELSE 0),
        !.corrupted_zip = @ + (IF type = "ZIP/Office" THEN 1 ELSE 0),
        !.corrupted_other = @ + (IF type = "Binaire" THEN 1 ELSE 0),
        !.corrupted_files = @ \cup {[file |-> id, type |-> type, hash |-> id]}]

\* lines 823-829: the ledger entry of the file, if there is one, is marked
MarkCorrupted(meta, id, type) ==
    IF id \notin DOMAIN meta THEN meta
    ELSE [meta EXCEPT ![id] =
            [f \in DOMAIN meta[id] \cup {"status", "corruption_type", "moved_to"} |->
                IF f = "status" THEN "corrupted"
                ELSE IF f = "corruption_type" THEN type
                ELSE IF f = "moved_to" THEN "corrupted_files"
                ELSE meta[id][f]]]

\* where the body of the loop may raise for a file: at open (line 784), at
\* the rename of the page (line 817), at the rename of the sidecar (line 822)
ErrorPoints == {"none", "open", "rename", "hash_rename"}

\* lines 783-832: the body of the loop for page id; st is [files, hashes,
\* meta, cdir, stats]
CleanFile(st, id, dry_run, err) ==
    LET type == corruption_type(first_bytes(st.files[id]))
        counted == Counted(st.stats, id, type)
        moved == [st EXCEPT !.files = Del(@, {id}),
                            !.cdir = Put(@, <<id, ".html">>, st.files[id]),
                            !.stats = counted] IN
    IF err = "open" THEN [st EXCEPT !.stats.errors = @ + 1]
    ELSE IF type = "none" THEN st
    ELSE IF ~Acts(dry_run) THEN [st EXCEPT !.stats = counted]
    ELSE IF err = "rename" THEN [st EXCEPT !.stats = [counted EXCEPT !.errors = @ + 1]]
    ELSE IF id \in DOMAIN st.hashes /\ err = "hash_rename"
    THEN [moved EXCEPT !.stats.errors = @ + 1]
    ELSE [moved EXCEPT !.hashes = Del(@, {id}),
                       !.cdir = IF id \in DOMAIN st.hashes
                                THEN Put(@, <<id, ".hash">>, st.hashes[id]) ELSE @,
                       !.meta = MarkCorrupted(@, id, type),
                       !.stats.moved = @ + 1]

\* line 782: the loop over html_files, in the order of glob
RECURSIVE CleanLoop(_, _, _, _)
CleanLoop(ids, st, dry_run, errs) ==
    IF ids = {} THEN st
    ELSE LET id == CHOOSE x \in ids : TRUE IN
         CleanLoop(ids \ {id}, CleanFile(st, id, dry_run, errs[id]), dry_run, errs)

\* the passes the model takes: no page raises, or one page raises somewhere
ErrorChoices(ids) ==
    { [id \in ids |-> "none"] }
    \cup { [id \in ids |-> IF id = bad THEN e ELSE "none"] :
              bad \in ids, e \in ErrorPoints \ {"none"} }

\* lines 761-834
clean_corrupted_html_files ==
    /\ clean_runs < MaxCleanRuns
    /\ \E dry_run \in BOOLEAN : \E errs \in ErrorChoices(DOMAIN htmlFiles) :
          LET r == CleanLoop(DOMAIN htmlFiles,
                             [files |-> htmlFiles, hashes |-> htmlHashes,
                              meta |-> ledger, cdir |-> corrupted_dir,
                              stats |-> [NoCleanStats EXCEPT
                                           !.dry_run = dry_run,
                                           !.total_checked = Cardinality(DOMAIN htmlFiles)]],
                             dry_run, errs) IN
          /\ htmlFiles' = r.files
          /\ htmlHashes' = r.hashes
          /\ ledger' = r.meta
          /\ corrupted_dir' = r.cdir
          /\ clean_stats' = r.stats
    /\ clean_runs' = clean_runs + 1
    /\ UNCHANGED <<docFiles, docHashes, tempFiles, mdHtml, mdDocs, dResult, dRuns>>
    /\ UNCHANGED <<crawlVars, indexVars, normVars, chatVars, retryVars, authVars>>

NextDedup ==
    \/ deduplicate_markdown_files \/ deduplicate_converted_documents
    \/ clean_corrupted_html_files

SpecDedup == InitDedup /\ [][NextDedup]_vars

\* the lexicographically-first name of a set of names
LexFirst(names) == CHOOSE n \in names : \A m \in names \ {n} : LexLess(n, m)

\* what a pass with dry_run=False that returned res made of folder before
DedupPost(before, after, res) ==
    /\ \A t \in Range(before) :
          {n \in DOMAIN after : after[n] = t}
              = {LexFirst({n \in DOMAIN before : before[n] = t})}
    /\ \A n \in DOMAIN after : n \in DOMAIN before /\ after[n] = before[n]
    /\ res.files_kept =
          Cardinality({t \in Range(before) :
                          Cardinality({n \in DOMAIN before : before[n] = t}) > 1})
    /\ res.files_removed = Cardinality(DOMAIN before \ DOMAIN after)

\* C9: a pass of deduplicate_markdown_files or
\* deduplicate_converted_documents with dry_run=False leaves of every group
\* of files with identical content exactly the file with the
\* lexicographically-first name, leaves the other files as they were,
\* returns the number of groups as files_kept and the number of deleted
\* files as files_removed; a pass that follows it on the same folder
\* removes nothing.
C9_DedupKeepsFirst ==
    [][ dRuns' = dRuns + 1 =>
          /\ (~dResult'.dry_run /\ dResult'.folder = "converted_html")
                => DedupPost(mdHtml, mdHtml', dResult') /\ mdDocs' = mdDocs
          /\ (~dResult'.dry_run /\ dResult'.folder = "converted_documents")
                => DedupPost(mdDocs, mdDocs', dResult') /\ mdHtml' = mdHtml
          /\ (~dResult.dry_run /\ dResult'.folder = dResult.folder)
                => /\ dResult'.files_removed = 0
                   /\ dResult'.removed_files = {}
                   /\ mdHtml' = mdHtml /\ mdDocs' = mdDocs ]_vars

\* witness of C9: a pass with dry_run=False over converted_html held two
\* groups of two files, removed "a.md" and "a_b.md" and kept "B.md" and
\* "a-b.md".
C9_Witness ==
    /\ dRuns = 1
    /\ ~dResult.dry_run /\ dResult.folder = "converted_html"
    /\ dResult.files_kept = 2 /\ dResult.files_removed = 2
    /\ dResult.removed_files = {<<97>> \o DotMd, <<97, 95, 98>> \o DotMd}
    /\ DOMAIN mdHtml = {<<66>> \o DotMd, <<97, 45, 98>> \o DotMd}

(***************************************************************************)
(* One /chat request: handle_chat of api.py and Chatbot.handle_rag_request *)
(* of core/chatbot.py.  handle_rag_request is a generator: its body runs   *)
(* while the response is streamed, after handle_chat has returned.         *)
(***************************************************************************)
MaxChunks == 2
SEARCH_K == 10

Questions == {"bonjour", "frais"}
\* ChatRequest.history is a List[Dict[str, str]]: the keys of a message are
\* not prescribed
Histories ==
    { <<>>,
      << [role |-> "user", content |-> "c1"], [role |-> "assistant", content |-> "c2"] >>,
      << [role |-> "user", content |-> "c1"], [text |-> "c2"] >> }

INTENT_CATEGORIES == {"Salutations", "Question_Information_Generale", "Inapproprie"}
PREDEFINED_ANSWERS == {"Salutations", "Saluations", "Inapproprie"}    \* the keys

\* what the classifier model can answer, as a sequence of characters in
\* which a category name is one symbol
ClassifierOutputs ==
    { <<"Salutations">>, <<" ", "Salutations", "NL">>, <<"Saluations">>,
      <<"Question_Information_Generale">>, <<"Inapproprie">>,
      <<"Inapproprie", ".">>, <<"Autre">>, <<>> }

\* the canned French text of an intent, config.py lines 47-51
french_answer(intent) ==
    IF intent = "Inapproprie" THEN "je_suis_miabe_ia" ELSE "bonjour_je_suis_miabe_ia"

\* one call: which chain or engine, its input, whether it succeeded, its
\* output
Call(call, arg, ok, out) == [call |-> call, arg |-> arg, ok |-> ok, out |-> out]

\* mutant: a failed rewrite yields an empty query
rewrite_result_empty(ok, question) == IF ok THEN "standalone" ELSE ""

\* _rewrite_query, lines 138-142: the value returned
rewrite_result(ok, question) == IF ok THEN "standalone" ELSE question

\* mutant: the trimmed answer of the classifier is returned as it is
classify_result_unchecked(ok, intent) ==
    IF ok /\ Len(Strip(intent)) = 1 THEN Strip(intent)[1]
    ELSE "Question_Information_Generale"

\* _classify_intent, lines 123-128: the value returned
classify_result(ok, intent) ==
    IF ok /\ Len(Strip(intent)) = 1 /\ Strip(intent)[1] \in INTENT_CATEGORIES
    THEN Strip(intent)[1]
    ELSE "Question_Information_Generale"

\* mutant: the original question is classified
ClassifierInputOriginal == cQuestion

\* line 179: what _classify_intent is called with
ClassifierInput == cRewritten

\* mutant: only the greeting gets the canned reply
UsesCannedReplyGreetingOnly(intent) == intent = "Salutations"

\* line 181
UsesCannedReply(intent) == intent \in PREDEFINED_ANSWERS \/ intent = "Saluations"

\* mutant: the empty result is not tested
NoChunksFoundNever(n) == FALSE

\* line 194: if not relevant_chunks
NoChunksFound(n) == n = 0

\* the chunks a model streams: text, or an empty string
StreamChunks == {"chunk", ""}

\* the vector store the service finds on disk when it starts: no file, one
\* file of the two, a file that cannot be read back, the store of one
\* chunk, stores of 0, SEARCH_K and SEARCH_K + 1 chunks, and an index of
\* two vectors beside the mapping of one chunk
StoredText(i) == [doc |-> i, part |-> 0, title |-> "none", len |-> 40]
IndexFileOf(n) ==
    [exists |-> TRUE, build |-> "old", loadable |-> TRUE,
     vectors |-> [j \in 1..n |->
                    [id |-> j - 1, vec |-> Embedding(Normalized(StoredText(j - 1)))]]]
MappingFileOf(n) ==
    [exists |-> TRUE, build |-> "old", loadable |-> TRUE,
     texts |-> [j \in 1..n |-> StoredText(j - 1)],
     metadata |-> [j \in 1..n |-> [source |-> transform_source_path(j - 1)]]]
Unloadable(file) == [file EXCEPT !.loadable = FALSE]
VectorStores ==
    { [idx |-> NoIndexFile, map |-> NoMappingFile],
      [idx |-> OldIndexFile, map |-> NoMappingFile],
      [idx |-> NoIndexFile, map |-> OldMappingFile],
      [idx |-> OldIndexFile, map |-> Unloadable(OldMappingFile)],
      [idx |-> Unloadable(OldIndexFile), map |-> OldMappingFile],
      [idx |-> OldIndexFile, map |-> OldMappingFile],
      [idx |-> IndexFileOf(2), map |-> OldMappingFile] }
    \cup { [idx |-> IndexFileOf(n), map |-> MappingFileOf(n)] :
             n \in {0, SEARCH_K, SEARCH_K + 1} }

\* lines 102-114: read_index or open or pickle.load raises
LoadFailsNever(idx, map) == FALSE

LoadFails(idx, map) ==
    \/ ~idx.exists \/ ~idx.loadable
    \/ ~map.exists \/ ~map.loadable

\* _load_vector_store, lines 103-107
load_vector_store(idx, map) ==
    [ready |-> TRUE, index |-> idx.vectors, all_chunk_texts |-> map.texts,
     all_chunk_metadata |-> map.metadata]

\* index.search, line 154: the ids of the k vectors nearest to the query,
\* nearest first, the places that no vector fills holding -1.  The order
\* of the distances depends on the query: one query has the vectors in the
\* order of their ids, the other queries in the opposite order.
Rank(query, n, j) == IF query = "standalone" THEN j ELSE n + 1 - j
search(index, query, k) ==
    [j \in 1..k |-> IF j <= Len(index) THEN index[Rank(query, Len(index), j)].id
                    ELSE -1]

\* line 159
IsNeighbourAlways(idx) == TRUE

IsNeighbour(idx) == idx # -1

\* a Python list indexed by idx: a negative idx counts from the end, an
\* idx outside the list raises IndexError
InList(list, idx) == -Len(list) <= idx /\ idx < Len(list)
At(list, idx) == list[IF idx < 0 THEN Len(list) + 1 + idx ELSE idx + 1]

\* lines 156-159: the ids of the search that the loop keeps
kept_indices(bot, query) ==
    SelectSeq(search(bot.index, query, SEARCH_K), IsNeighbour)

\* lines 160-163: one of the lookups raises
LookupRaises(bot, query) ==
    \E j \in 1..Len(kept_indices(bot, query)) :
        \/ ~InList(bot.all_chunk_texts, kept_indices(bot, query)[j])
        \/ ~InList(bot.all_chunk_metadata, kept_indices(bot, query)[j])

\* _find_relevant_chunks, lines 144-164
find_relevant_chunks(bot, query) ==
    [j \in 1..Len(kept_indices(bot, query)) |->
        [text |-> At(bot.all_chunk_texts, kept_indices(bot, query)[j]),
         metadata |-> At(bot.all_chunk_metadata, kept_indices(bot, query)[j])]]

\* lines 151-164, with the mutant whose search takes the nearest vector out
\* of the index: _find_relevant_chunks assigns no attribute of the Chatbot,
\* index.search and the two subscripts only read
after_find_relevant_chunks_consumed(bot, query) ==
    [bot EXCEPT !.index = IF @ = <<>> THEN @ ELSE Tail(@)]

after_find_relevant_chunks(bot, query) == bot

\* the latest call is marked as failed
FailLast(calls) == [calls EXCEPT ![Len(calls)].ok = FALSE]

InitChat ==
    /\ StoreEmpty /\ site = NoSite /\ CrawlAtRest
    /\ DedupAtRest /\ NormAtRest /\ RetryAtRest /\ AuthAtRest
    /\ markdown_files = <<>>
    /\ all_texts_for_embedding = <<>> /\ all_texts_for_storage = <<>>
    /\ all_chunk_metadata = <<>> /\ embeddings = <<>>
    /\ ipc = "idle"
    /\ \E vs \in VectorStores : idxFile = vs.idx /\ mapFile = vs.map
    /\ cpc = "startup" /\ cQuestion = "none" /\ cHistory \in Histories
    /\ cRewritten = "none" /\ cIntent = "none" /\ cFound = 0
    /\ cOut = <<>> /\ http = "none" /\ cCalls = <<>>
    /\ chatbot = NoChatbot /\ search_results = <<>>
    /\ concurrent_results = <<>>

ChatFrame ==
    UNCHANGED <<storeVars, crawlVars, dedupVars, indexVars, normVars, retryVars, authVars>>

\* api.py, lines 25-31, and Chatbot.__init__, lines 28-32: the module builds
\* the one Chatbot; an exception of _load_vector_store is raised again by
\* the constructor and by the module, whose import then fails, so that the
\* /chat route is never registered with a server
Startup ==
    /\ cpc = "startup"
    /\ IF LoadFails(idxFile, mapFile)
       THEN cpc' = "startup_failed" /\ UNCHANGED chatbot
       ELSE cpc' = "idle" /\ chatbot' = load_vector_store(idxFile, mapFile)
    /\ UNCHANGED <<cQuestion, cHistory, cRewritten, cIntent, cFound, cOut, http,
                   cCalls, search_results, concurrent_results>>
    /\ ChatFrame

\* api.py, lines 40-48: the generator is created and handed to
\* StreamingResponse; no line of handle_rag_request has run yet
handle_chat ==
    /\ cpc = "idle"
    /\ \E q \in Questions : cQuestion' = q
    /\ cpc' = "rewrite"
    /\ http' = "streaming"
    /\ UNCHANGED <<cHistory, cRewritten, cIntent, cFound, cOut, cCalls>>
    /\ UNCHANGED <<chatbot, search_results, concurrent_results>>
    /\ ChatFrame

\* lines 176 and 130-142: history_str is built before the try
RewriteQuery ==
    /\ cpc = "rewrite"
    /\ IF \E i \in 1..Len(cHistory) : ~({"role", "content"} \subseteq DOMAIN cHistory[i])
       THEN /\ cpc' = "raised" /\ http' = "broken"
            /\ UNCHANGED <<cRewritten, cCalls>>
       ELSE /\ \E ok \in BOOLEAN :
                  /\ cRewritten' = rewrite_result(ok, cQuestion)
                  /\ cCalls' = Append(cCalls, Call("rewrite", cQuestion, ok,
                                                   IF ok THEN "standalone" ELSE "none"))
            /\ cpc' = "classify"
            /\ UNCHANGED http
    /\ UNCHANGED <<cQuestion, cHistory, cIntent, cFound, cOut>>
    /\ UNCHANGED <<chatbot, search_results, concurrent_results>>
    /\ ChatFrame

\* lines 179 and 116-128
ClassifyIntent ==
    /\ cpc = "classify"
    /\ \E ok \in BOOLEAN : \E out \in (IF ok THEN ClassifierOutputs ELSE {<<>>}) :
          /\ cIntent' = classify_result(ok, out)
          /\ cCalls' = Append(cCalls, Call("classify", ClassifierInput, ok, out))
    /\ cpc' = "route"
    /\ UNCHANGED <<cQuestion, cHistory, cRewritten, cFound, cOut, http>>
    /\ UNCHANGED <<chatbot, search_results, concurrent_results>>
    /\ ChatFrame

\* lines 181-188, 191 and 213-214: the branch is chosen; the canned-reply
\* chain is called with the question, the intent and the canned text
Route ==
    /\ cpc = "route"
    /\ IF UsesCannedReply(cIntent)
       THEN /\ cpc' = "predefined"
            /\ cCalls' = Append(cCalls, Call("predefined", cQuestion, TRUE,
                                             <<cIntent, french_answer(cIntent)>>))
            /\ UNCHANGED <<cOut, http>>
       ELSE IF cIntent = "Question_Information_Generale"
       THEN cpc' = "find" /\ UNCHANGED <<cOut, http, cCalls>>
       ELSE /\ cOut' = Append(cOut, "default")
            /\ cpc' = "done" /\ http' = "complete"
            /\ UNCHANGED cCalls
    /\ UNCHANGED <<cQuestion, cHistory, cRewritten, cIntent, cFound>>
    /\ UNCHANGED <<chatbot, search_results, concurrent_results>>
    /\ ChatFrame

\* lines 183-189: one event of predefined_chain.stream; a stream that
\* succeeds carries at least one chunk, an exception of the stream is
\* caught by nothing
PredefinedStream ==
    /\ cpc = "predefined"
    /\ \E ev \in {"chunk", "end", "error"} :
          \/ /\ ev = "chunk" /\ Len(cOut) < MaxChunks
             /\ \E c \in StreamChunks : cOut' = Append(cOut, c)
             /\ UNCHANGED <<cpc, http, cCalls>>
          \/ /\ ev = "end" /\ Len(cOut) >= 1
             /\ cpc' = "done" /\ http' = "complete"
             /\ UNCHANGED <<cOut, cCalls>>
          \/ /\ ev = "error"
             /\ cpc' = "raised" /\ http' = "broken"
             /\ cCalls' = FailLast(cCalls)
             /\ UNCHANGED cOut
    /\ UNCHANGED <<cQuestion, cHistory, cRewritten, cIntent, cFound>>
    /\ UNCHANGED <<chatbot, search_results, concurrent_results>>
    /\ ChatFrame

\* lines 192-208 and 144-164: embed_query or a lookup raises, or the
\* chunks are found; with chunks the answer chain is called
FindRelevantChunks ==
    /\ cpc = "find"
    /\ \E ok \in BOOLEAN :
          LET n == Len(find_relevant_chunks(chatbot, cRewritten)) IN
          IF ~ok \/ LookupRaises(chatbot, cRewritten)
          THEN /\ cCalls' = Append(cCalls, Call("retrieval", cRewritten, FALSE, 0))
               /\ cOut' = Append(cOut, "apology")
               /\ cpc' = "done" /\ http' = "complete"
               /\ UNCHANGED <<cFound, search_results>>
          ELSE /\ search_results' = find_relevant_chunks(chatbot, cRewritten)
               /\ cFound' = n
               /\ IF NoChunksFound(n)
                  THEN /\ cCalls' = Append(cCalls,
                                        Call("retrieval", cRewritten, TRUE, n))
                       /\ cOut' = Append(cOut, "no_information")
                       /\ cpc' = "done" /\ http' = "complete"
                  ELSE /\ cCalls' = Append(Append(cCalls,
                                        Call("retrieval", cRewritten, TRUE, n)),
                                        Call("rag", cQuestion, TRUE, n))
                       /\ cpc' = "rag"
                       /\ UNCHANGED <<cOut, http>>
    /\ chatbot' = after_find_relevant_chunks(chatbot, cRewritten)
    /\ UNCHANGED <<cQuestion, cHistory, cRewritten, cIntent, concurrent_results>>
    /\ ChatFrame

\* lines 203-212: one event of rag_chain.stream
RagStream ==
    /\ cpc = "rag"
    /\ \E ev \in {"chunk", "end", "error"} :
          \/ /\ ev = "chunk" /\ Len(cOut) < MaxChunks
             /\ \E c \in StreamChunks : cOut' = Append(cOut, c)
             /\ UNCHANGED <<cpc, http, cCalls>>
          \/ /\ ev = "end" /\ Len(cOut) >= 1
             /\ cpc' = "done" /\ http' = "complete"
             /\ UNCHANGED <<cOut, cCalls>>
          \/ /\ ev = "error"
             /\ cOut' = Append(cOut, "apology")
             /\ cCalls' = FailLast(cCalls)
             /\ cpc' = "done" /\ http' = "complete"
    /\ UNCHANGED <<cQuestion, cHistory, cRewritten, cIntent, cFound>>
    /\ UNCHANGED <<chatbot, search_results, concurrent_results>>
    /\ ChatFrame

\* api.py, lines 40-48, and lines 144-164: while the request above is
\* anywhere in its course, another thread of the server runs
\* _find_relevant_chunks for another request on the one Chatbot
ConcurrentRequest ==
    /\ chatbot.ready
    /\ \E q \in Questions :
          /\ ~LookupRaises(chatbot, q)
          /\ concurrent_results' = find_relevant_chunks(chatbot, q)
          /\ chatbot' = after_find_relevant_chunks(chatbot, q)
    /\ UNCHANGED <<cpc, cQuestion, cHistory, cRewritten, cIntent, cFound, cOut, http,
                   cCalls, search_results>>
    /\ ChatFrame

NextChat ==
    \/ Startup \/ handle_chat \/ RewriteQuery \/ ClassifyIntent \/ Route
    \/ PredefinedStream \/ FindRelevantChunks \/ RagStream
    \/ ConcurrentRequest

SpecChat == InitChat /\ [][NextChat]_vars

\* C4: whatever the rewrite, classify, embedding, canned-reply and
\* answer-generation calls do, handle_rag_request does not raise to its
\* caller, and when it returns it has yielded at least one chunk.
C4_NeverRaises ==
    /\ cpc # "raised"
    /\ cpc = "done" => Len(cOut) >= 1

\* the places of the calls to one chain or engine
CallsOf(call) == {i \in 1..Len(cCalls) : cCalls[i].call = call}

\* C16: when every rewrite, classify and generation call fails,
\* handle_rag_request does not raise, and when it returns it has yielded a
\* chunk that is not empty.
C16_TotalFailure ==
    (\A i \in 1..Len(cCalls) :
        cCalls[i].call \in {"rewrite", "classify", "rag", "predefined"} => ~cCalls[i].ok)
    => /\ cpc # "raised"
       /\ cpc = "done" => \E i \in 1..Len(cOut) : cOut[i] # ""

\* the answer of the classifier is, once trimmed, a canonical category
Canonical(out) == \E c \in INTENT_CATEGORIES : Strip(out) = <<c>>

\* C17: when the classifier call has failed or answered something that,
\* trimmed, is no canonical category, the intent is
\* Question_Information_Generale, the request takes the information path
\* and nothing is raised.
C17_ClassifierDefault ==
    \A i \in CallsOf("classify") :
        (~cCalls[i].ok \/ ~Canonical(cCalls[i].out))
        => /\ cIntent = "Question_Information_Generale"
           /\ cpc # "raised"
           /\ CallsOf("predefined") = {}
           /\ cpc = "done" => CallsOf("retrieval") # {}

\* witness of C17: the classifier answered the misspelt "Saluations" and the
\* request was served on the information path.
C17_Witness ==
    /\ cpc = "done"
    /\ \E i \in CallsOf("classify") : cCalls[i].ok /\ cCalls[i].out = <<"Saluations">>
    /\ CallsOf("retrieval") # {}

\* C18: when the rewrite call has failed, the standalone query is the
\* original question: it is what the classifier and the retrieval are
\* called with.
C18_RewriteFallback ==
    \A i \in CallsOf("rewrite") :
        ~cCalls[i].ok
        => /\ cRewritten = cQuestion
           /\ \A j \in CallsOf("classify") \cup CallsOf("retrieval") :
                 cCalls[j].arg = cQuestion

\* witness of C18: the rewrite failed and the retrieval ran on the original
\* question.
C18_Witness ==
    /\ cpc = "rag" /\ cQuestion = "frais"
    /\ \E i \in CallsOf("rewrite") : ~cCalls[i].ok
    /\ \E j \in CallsOf("retrieval") : cCalls[j].arg = "frais" /\ cCalls[j].ok

\* C19: when the retrieval has returned no chunk, the request has ended
\* with the one message that no information was found, and the answer chain
\* has not been called.
C19_NoChunksStops ==
    \A i \in CallsOf("retrieval") :
        (cCalls[i].ok /\ cCalls[i].out = 0)
        => /\ cpc = "done"
           /\ cOut = <<"no_information">>
           /\ CallsOf("rag") = {}

\* witness of C19: a request on the information path whose retrieval found
\* nothing has ended.
C19_Witness ==
    /\ cpc = "done" /\ cIntent = "Question_Information_Generale"
    /\ cFound = 0
    /\ \E i \in CallsOf("retrieval") : cCalls[i].ok /\ cCalls[i].out = 0
    /\ cOut = <<"no_information">>

\* C20: the retrieval is called only for the intent
\* Question_Information_Generale and then with the rewritten question, and
\* a request with that intent that got past the routing has called it; a
\* request with the intent Salutations or Inapproprie calls neither the
\* retrieval nor the answer chain, calls the canned-reply chain once with
\* the canned text of its intent and yields only what that chain streams.
C20_Routing ==
    /\ \A i \in CallsOf("retrieval") :
          /\ cIntent = "Question_Information_Generale"
          /\ cCalls[i].arg = cRewritten
          /\ \A r \in CallsOf("rewrite") : cCalls[r].ok => cCalls[i].arg = cCalls[r].out
    /\ (cIntent = "Question_Information_Generale" /\ cpc \in {"rag", "done"})
          => Cardinality(CallsOf("retrieval")) = 1
    /\ \A i \in CallsOf("predefined") \cup CallsOf("rag") :
          cCalls[i].arg = cQuestion
    /\ cIntent \in {"Salutations", "Inapproprie"} =>
          /\ CallsOf("retrieval") = {} /\ CallsOf("rag") = {}
          /\ cpc \in {"predefined", "done", "raised"} =>
                /\ Cardinality(CallsOf("predefined")) = 1
                /\ \A i \in CallsOf("predefined") :
                      cCalls[i].out = <<cIntent, french_answer(cIntent)>>
          /\ \A i \in 1..Len(cOut) : cOut[i] \in StreamChunks

\* witness of C20: a request classified Inapproprie after a successful
\* rewrite was answered by the canned-reply chain.
C20_Witness ==
    /\ cpc = "done" /\ cIntent = "Inapproprie"
    /\ cRewritten = "standalone"
    /\ cOut = <<"chunk">>
    /\ \E i \in CallsOf("predefined") :
          cCalls[i].ok /\ cCalls[i].out = <<"Inapproprie", "je_suis_miabe_ia">>

\* C21: within one request each of the rewrite, classify, retrieval and
\* generation calls is made at most once; the classifier is called after
\* the rewrite has returned and with what the rewrite stage has produced
\* (its output, or the question when it failed); the retrieval and the two
\* generation chains are called after the classifier has returned.
C21_StrictOrder ==
    /\ \A c \in {"rewrite", "classify", "retrieval"} : Cardinality(CallsOf(c)) <= 1
    /\ Cardinality(CallsOf("rag") \cup CallsOf("predefined")) <= 1
    /\ \A i \in CallsOf("classify") :
          \E r \in CallsOf("rewrite") :
              /\ r < i
              /\ cCalls[i].arg = IF cCalls[r].ok THEN cCalls[r].out ELSE cQuestion
    /\ \A g \in CallsOf("retrieval") \cup CallsOf("rag") \cup CallsOf("predefined") :
          \E i \in CallsOf("classify") : i < g
    /\ \A g \in CallsOf("rag") : \E t \in CallsOf("retrieval") : t < g

\* witness of C21: a request on the information path has ended after the
\* four calls rewrite, classify, retrieval, answer generation.
C21_Witness ==
    /\ cpc = "done" /\ Len(cCalls) = 4
    /\ cCalls[1].call = "rewrite" /\ cCalls[1].ok
    /\ cCalls[2].call = "classify" /\ cCalls[2].arg = "standalone"
    /\ cCalls[3].call = "retrieval"
    /\ cCalls[4].call = "rag" /\ cCalls[4].ok

\* the chunks of the loaded store that a retrieval that returned has found
Returned == \E i \in CallsOf("retrieval") : cCalls[i].ok
MinOf(a, b) == IF a <= b THEN a ELSE b

\* C22: _find_relevant_chunks returns at most SEARCH_K results; it returns
\* fewer than SEARCH_K only when the index holds fewer vectors, and then as
\* many as the index holds, so none for an empty index and none for a
\* place the search has filled with -1; every result pairs the text and
\* the metadata that the loaded arrays hold at one id of the index, and
\* the results follow the order of the search.
C22_RetrievalBound ==
    Returned =>
        /\ Len(search_results) <= SEARCH_K
        /\ Len(search_results) = MinOf(SEARCH_K, Len(chatbot.index))
        /\ \A j \in 1..Len(search_results) :
              LET id == search(chatbot.index, cRewritten, SEARCH_K)[j] IN
              /\ id # -1
              /\ \E v \in 1..Len(chatbot.index) : chatbot.index[v].id = id
              /\ search_results[j] = [text |-> chatbot.all_chunk_texts[id + 1],
                                      metadata |-> chatbot.all_chunk_metadata[id + 1]]

\* a store of one chunk has been searched: nine places of the search held
\* -1 and one result came back
C22_Witness ==
    /\ Returned
    /\ Len(chatbot.index) = 1
    /\ Len(search_results) = 1
    /\ search(chatbot.index, cRewritten, SEARCH_K)[2] = -1

\* one of the two files of the vector store is missing or cannot be read back
StoreUnusable ==
    \/ ~idxFile.exists \/ ~idxFile.loadable
    \/ ~mapFile.exists \/ ~mapFile.loadable

\* C25: when the index file or the mapping file is missing or cannot be
\* loaded, the construction of the Chatbot raises and the service module
\* aborts: no Chatbot exists and no chat request is ever taken; a request
\* that is taken runs against a Chatbot that holds the whole of both files.
C25_StartupAborts ==
    /\ (StoreUnusable /\ cpc # "startup") =>
          /\ cpc = "startup_failed"
          /\ ~chatbot.ready
          /\ http = "none" /\ cQuestion = "none" /\ cCalls = <<>> /\ cOut = <<>>
    /\ http # "none" =>
          /\ chatbot.ready
          /\ chatbot.index = idxFile.vectors
          /\ chatbot.all_chunk_texts = mapFile.texts
          /\ chatbot.all_chunk_metadata = mapFile.metadata

\* the index file has been read and the mapping file could not be: the
\* service has aborted
C25_Witness ==
    /\ cpc = "startup_failed"
    /\ idxFile.exists /\ idxFile.loadable
    /\ mapFile.exists /\ ~mapFile.loadable

\* len() of a stored text: the content for a whole document, the
\* breadcrumb, a line feed and the content for a chunk of a long document
TitleLen(title) ==
    CASE title = "T1" -> 2
      [] title = "T1 - T2" -> 7
      [] OTHER -> 0
CharCount(text) ==
    IF text.part = 0 THEN text.len ELSE TitleLen(text.title) + 1 + text.len

\* C23: at every moment of create_vector_store, each text of the
\* storage-text array is at least MIN_CHAR_COUNT (20) characters long,
\* whether it is a whole document or a chunk of the hybrid path; so is
\* each text of a mapping file that the run has written.
C23_ChunkFloor ==
    /\ \A i \in 1..Len(all_texts_for_storage) :
          CharCount(all_texts_for_storage[i]) >= 20
    /\ mapFile.build = "new" =>
          \A i \in 1..Len(mapFile.texts) : CharCount(mapFile.texts[i]) >= 20

\* a document of 20 characters is stored whole, and of the two chunks of a
\* long document the one of 5 characters is left out
C23_Witness ==
    /\ ipc = "scan" /\ markdown_files = <<>>
    /\ Len(all_texts_for_storage) = 2
    /\ all_texts_for_storage[1] = [doc |-> 1, part |-> 0, title |-> "none", len |-> 20]
    /\ all_texts_for_storage[2] = [doc |-> 2, part |-> 1, title |-> "", len |-> 7996]

\* the texts that a step has appended to the storage-text array
Added == SubSeq(all_texts_for_storage', Len(all_texts_for_storage) + 1,
                Len(all_texts_for_storage'))
\* the step has stored the document as one chunk, the whole document
StoredWhole(name, file) ==
    Added = << [doc |-> name, part |-> 0, title |-> "none", len |-> file.len] >>
\* the step has stored chunks of the two splitters, in their order
StoredHybrid(name, file) ==
    /\ \A i \in 1..Len(Added) :
          /\ Added[i].doc = name
          /\ Added[i].part \in 1..Len(file.splits)
          /\ Added[i].title = file.splits[Added[i].part].title
          /\ Added[i].len = file.splits[Added[i].part].len
    /\ \A i, j \in 1..Len(Added) : i < j => Added[i].part < Added[j].part

\* C24: the step of create_vector_store that processes a readable document
\* of at least MIN_CHAR_COUNT characters stores it as exactly one chunk,
\* the whole document, when its estimated token count is below 8000, and
\* as chunks of the hybrid splitting when the count is above 8000; with
\* any count, 8000 included, it follows exactly one of the two strategies.
C24_StrategySelection ==
    [][ (ipc = "scan" /\ markdown_files # <<>>
            /\ markdown_files' = Tail(markdown_files)) =>
          LET name == Head(markdown_files).name
              file == Head(markdown_files).file
              estimate == IF file.countOk THEN file.tokens ELSE file.len IN
          /\ SubSeq(all_texts_for_storage', 1, Len(all_texts_for_storage))
                = all_texts_for_storage
          /\ (file.readable /\ file.len >= 20) =>
                /\ estimate < 8000 => StoredWhole(name, file)
                /\ estimate > 8000 => StoredHybrid(name, file)
                /\ StoredWhole(name, file) # StoredHybrid(name, file) ]_vars

\* a document of exactly 8000 tokens has been stored whole and the
\* document after it, of 8001 tokens, as the chunks of its splitting
C24_Witness ==
    /\ ipc = "scan" /\ markdown_files = <<>>
    /\ Len(all_texts_for_storage) = 3
    /\ all_texts_for_storage[1] = [doc |-> 1, part |-> 0, title |-> "none", len |-> 30000]
    /\ all_texts_for_storage[2] = [doc |-> 2, part |-> 1, title |-> "T1", len |-> 1500]
    /\ all_texts_for_storage[3] = [doc |-> 2, part |-> 3, title |-> "T1 - T2", len |-> 20]

\* C26: under fair scheduling of the main thread and of the pool threads,
\* every crawl that has started returns; when it has returned, the
\* frontier is empty and no fetch is in flight, or max_pages URLs have
\* been dispatched.
C26_Terminates ==
    /\ (mpc = "dispatch") ~> (mpc = "returned")
    /\ [](mpc = "returned" =>
            /\ \A w \in 1..NumWorkers : workers[w].pc = "idle"
            /\ \/ urls_to_visit = <<>> /\ futures = <<>>
               \/ stats.total_pages >= max_pages)

\* a crawl has returned at max_pages with URLs left in the frontier
C26_Witness ==
    /\ mpc = "returned"
    /\ stats.total_pages = max_pages
    /\ urls_to_visit # <<>>

\* the fetches in flight: the pool threads inside worker_scrape
InFlight == {w \in 1..NumWorkers : workers[w].pc \notin {"idle", "done"}}

\* C27: at every moment of a crawl at most num_workers futures are
\* outstanding and at most num_workers fetches are in flight, every fetch
\* in flight being one of the outstanding futures; and every step that
\* changes the frontier or the visited set of a running crawl is taken by
\* the main thread while it holds the crawl lock.
C27_BoundedPool ==
    /\ [](/\ Len(futures) <= NumWorkers
          /\ Cardinality(InFlight) <= NumWorkers
          /\ InFlight \subseteq SeqToSet(futures))
    /\ [][ (crawlNo' = crawlNo
             /\ (urls_to_visit' # urls_to_visit \/ visited_urls' # visited_urls))
           => CrawlLockHeld ]_vars

\* every pool thread is fetching while the frontier holds a further URL
\* that max_pages would allow
C27_Witness ==
    /\ Len(futures) = NumWorkers
    /\ Cardinality(InFlight) = NumWorkers
    /\ urls_to_visit # <<>>
    /\ stats.total_pages < max_pages

\* C28: the frontier is a FIFO queue: within a crawl a step that takes a
\* URL takes the oldest one, the first of the frontier, and dispatches no
\* other; a step that adds URLs adds them behind those that wait; and
\* when a URL that is not a seed is dispatched, no seed waits in the
\* frontier any more.
C28_Fifo ==
    [][ crawlNo' = crawlNo =>
          /\ Len(urls_to_visit') < Len(urls_to_visit) =>
                /\ urls_to_visit' = Tail(urls_to_visit)
                /\ visited_urls' \in {visited_urls,
                                      visited_urls \cup {Head(urls_to_visit)}}
                /\ Head(urls_to_visit) \notin SeqToSet(start_urls) =>
                      SeqToSet(urls_to_visit') \cap SeqToSet(start_urls) = {}
          /\ Len(urls_to_visit') >= Len(urls_to_visit) =>
                /\ SubSeq(urls_to_visit', 1, Len(urls_to_visit)) = urls_to_visit
                /\ visited_urls' = visited_urls
      ]_vars

\* the links of page a were found while the seed ext waited; ext has been
\* dispatched and the five links wait in the order of the page
C28_Witness ==
    /\ start_urls = <<"a", "b", "ext">>
    /\ visited_urls = {"a", "b", "ext"}
    /\ urls_to_visit = <<"l1", "l2", "l3", "l4", "l5">>
    /\ \E w \in 1..NumWorkers : workers[w].url = "ext" /\ workers[w].pc = "start"

DownloaderSteps ==
    {"d_fetch", "d_check", "d_old", "d_rename", "d_hash", "d_lock", "d_meta"}

\* C29: a fetched URL whose response is of a document content type, or
\* whose URL has a document extension, goes to the downloader: its body is
\* never a file of html_brut, the thread that fetched it reads no HTML,
\* walks no link, and returns an empty list of links.
C29_DocumentsRouted ==
    /\ \A id \in DOMAIN htmlFiles : htmlFiles[id] \notin BinBodies
    /\ \A w \in 1..NumWorkers :
          LET f == workers[w] IN
          (/\ f.pc \notin {"idle", "start"}
           /\ (site[f.url] \in BinBodies \/ f.url = "d.pdf")) =>
              /\ f.ret = "top"
              /\ f.pc \in DownloaderSteps \cup {"done"}
              /\ f.body = "none"
              /\ f.todo = <<>> /\ f.found = <<>>
              /\ f.pc # "done" => f.doc = f.url

\* page b has answered with a PDF: the fetch is over, the PDF is a file of
\* documents and no file of html_brut, nothing was found for the frontier
C29_Witness ==
    \E w \in 1..NumWorkers :
        /\ workers[w].pc = "done" /\ workers[w].url = "b"
        /\ site["b"] = "k1"
        /\ workers[w].found = <<>>
        /\ <<hash_url("b"), ".pdf">> \in DOMAIN docFiles
        /\ hash_url("b") \notin DOMAIN htmlFiles

(***************************************************************************)
(* save_content_hash, load_content_hash and delete_old_file of             *)
(* scraping_pipeline.py, on a file system whose calls may fail.            *)
(*                                                                         *)
(* A file is named by its directory and <<identifier, extension>>.  Each   *)
(* call of open() or unlink() succeeds or raises PermissionError or        *)
(* another OSError.                                                        *)
(***************************************************************************)
max_attempts == 5

FsOutcomes == {"ok", "PermissionError", "OSError"}

\* except (PermissionError, OSError), lines 285, 307, 327
Caught(error) == error \in {"PermissionError", "OSError"}

\* for attempt in range(max_attempts): a further attempt follows this one;
\* the mutant is a loop that has no last attempt
MoreAttemptsAlways(n) == TRUE

MoreAttempts(n) == n + 1 < max_attempts

RetryOps ==
    { [name |-> n, file_type |-> t, hash_name |-> id, content_hash |-> "h2"] :
        n \in {"save", "load", "delete"}, t \in {"html", "document"},
        id \in {"a", "d.pdf"} }

Target(act, dir, id, ext) == [act |-> act, dir |-> dir, name |-> <<id, ext>>]

\* doc_dir.glob(f"{hash_name}.*"), line 340, as a sequence
RECURSIVE GlobDocs(_)
GlobDocs(names) ==
    IF names = {} THEN <<>>
    ELSE LET n == CHOOSE x \in names : TRUE IN
         <<Target("unlink", "documents", n[1], n[2])>> \o GlobDocs(names \ {n})

\* the files a call opens or unlinks, in order: lines 278, 298-300,
\* 320-337 and 339-350 (the exists() tests and the glob)
Targets(op) ==
    LET id == op.hash_name
        hashes == IF op.file_type = "html" THEN htmlHashes ELSE docHashes
        hash_dir == IF op.file_type = "html" THEN "html_hashes" ELSE "document_hashes"
        sidecar(act) == <<Target(act, hash_dir, id, ".hash")>> IN
    CASE op.name = "save" -> sidecar("write")
      [] op.name = "load" -> IF id \in DOMAIN hashes THEN sidecar("read") ELSE <<>>
      [] op.name = "delete" ->
            (IF op.file_type = "html"
             THEN IF id \in DOMAIN htmlFiles
                  THEN <<Target("unlink", "html_brut", id, ".html")>> ELSE <<>>
             ELSE GlobDocs({n \in DOMAIN docFiles : n[1] = id}))
            \o (IF id \in DOMAIN hashes THEN sidecar("unlink") ELSE <<>>)

\* the store the calls start from: empty, or one page and one document
\* kept under two extensions
InitRetry ==
    /\ site = NoSite /\ CrawlAtRest
    /\ DedupAtRest /\ IndexAtRest /\ NormAtRest /\ ChatAtRest /\ AuthAtRest
    /\ tempFiles = Empty /\ ledger = Empty
    /\ \E full \in BOOLEAN :
          /\ htmlFiles = IF full THEN Put(Empty, "a", "h1") ELSE Empty
          /\ htmlHashes = IF full THEN Put(Empty, "a", "h1") ELSE Empty
          /\ docFiles = IF full
                        THEN Put(Put(Empty, <<"d.pdf", ".pdf">>, "k1"),
                                 <<"d.pdf", ".bin">>, "k2")
                        ELSE Empty
          /\ docHashes = IF full THEN Put(Empty, "d.pdf", "k1") ELSE Empty
    /\ fpc = "idle" /\ fOp = NoOp /\ fTodo = <<>> /\ attempt = 0
    /\ fLog = <<>> /\ fRet = "none"

RetryFrame ==
    UNCHANGED <<tempFiles, ledger, crawlVars, dedupVars, indexVars, normVars,
                chatVars, authVars>>

\* the call: lines 269-280, 290-302, 313-318
RetryCall ==
    /\ fpc \in {"idle", "returned"}
    /\ \E op \in RetryOps :
          LET targets == Targets(op) IN
          /\ fOp' = [name |-> op.name, file_type |-> op.file_type,
                      hash_name |-> op.hash_name, content_hash |-> op.content_hash,
                      targets |-> targets]
          /\ fTodo' = targets
          /\ fpc' = IF targets = <<>> THEN "returned" ELSE "attempt"
    /\ attempt' = 0 /\ fLog' = <<>> /\ fRet' = "none"
    /\ UNCHANGED <<htmlFiles, htmlHashes, docFiles, docHashes>>
    /\ RetryFrame

\* the current file is done with, after a success or after the last
\* attempt: the next file, or the return
NextTarget(gave_up) ==
    /\ fLog' = Append(fLog, [target |-> Head(fTodo), tries |-> attempt + 1,
                              gave_up |-> gave_up])
    /\ fTodo' = Tail(fTodo)
    /\ attempt' = 0
    /\ fpc' = IF Tail(fTodo) = <<>> THEN "returned" ELSE "attempt"

\* what a successful open() or unlink() does to the store
Effect(t) ==
    /\ htmlFiles' = IF t.act = "unlink" /\ t.dir = "html_brut"
                    THEN Del(htmlFiles, {t.name[1]}) ELSE htmlFiles
    /\ docFiles' = IF t.act = "unlink" /\ t.dir = "documents"
                   THEN Del(docFiles, {t.name}) ELSE docFiles
    /\ htmlHashes' =
          IF t.dir # "html_hashes" THEN htmlHashes
          ELSE IF t.act = "unlink" THEN Del(htmlHashes, {t.name[1]})
          ELSE IF t.act = "write" THEN Put(htmlHashes, t.name[1], fOp.content_hash)
          ELSE htmlHashes
    /\ docHashes' =
          IF t.dir # "document_hashes" THEN docHashes
          ELSE IF t.act = "unlink" THEN Del(docHashes, {t.name[1]})
          ELSE IF t.act = "write" THEN Put(docHashes, t.name[1], fOp.content_hash)
          ELSE docHashes

\* lines 281-288, 303-310, 322-328: one attempt of the retry loop
Attempt ==
    /\ fpc = "attempt"
    /\ \E outcome \in FsOutcomes :
          LET t == Head(fTodo) IN
          IF outcome = "ok"
          THEN /\ Effect(t)
               /\ fRet' = IF t.act = "read"
                          THEN (IF t.dir = "html_hashes" THEN htmlHashes
                                ELSE docHashes)[t.name[1]]
                          ELSE fRet
               /\ NextTarget(FALSE)
          ELSE /\ UNCHANGED <<htmlFiles, htmlHashes, docFiles, docHashes, fRet>>
               /\ IF ~Caught(outcome)
                  THEN fpc' = "raised" /\ UNCHANGED <<fTodo, attempt, fLog>>
                  ELSE IF MoreAttempts(attempt)
                  THEN attempt' = attempt + 1 /\ UNCHANGED <<fpc, fTodo, fLog>>
                  ELSE NextTarget(TRUE)
    /\ UNCHANGED fOp
    /\ RetryFrame

NextRetry == RetryCall \/ Attempt

SpecRetry == InitRetry /\ [][NextRetry]_vars

\* the file t is there
Present(t) ==
    CASE t.dir = "html_brut" -> t.name[1] \in DOMAIN htmlFiles
      [] t.dir = "documents" -> t.name \in DOMAIN docFiles
      [] t.dir = "html_hashes" -> t.name[1] \in DOMAIN htmlHashes
      [] t.dir = "document_hashes" -> t.name[1] \in DOMAIN docHashes

C33_CanonicalIntent ==
    /\ CallsOf("classify") # {} =>
          /\ cIntent \in {"Salutations", "Question_Information_Generale",
                           "Inapproprie"}
          /\ cIntent # "Saluations"
    /\ \A i \in CallsOf("predefined") : cCalls[i].out[1] # "Saluations"
    /\ \A j \in 1..Len(cOut) : cOut[j] # "default"

\* the classifier has answered a name that is no category and the request
\* has ended on the information path
C33_Witness ==
    /\ cpc = "done"
    /\ \E i \in CallsOf("classify") : cCalls[i].ok /\ cCalls[i].out = <<"Autre">>
    /\ cIntent = "Question_Information_Generale"
    /\ CallsOf("retrieval") # {}

\* C34: at every moment of a crawl pages_scraped + errors is at most
\* total_pages, the difference being the dispatched URLs not yet
\* harvested; when crawl_website returns, pages_skipped is
\* total_pages - pages_scraped - errors, which is not negative and is the
\* number of dispatched URLs whose result was not harvested when the loop
\* ended; those URLs are not counted as scraped, and after the loop has
\* ended nothing is added to the frontier.
C34_StatsAccounting ==
    /\ [](/\ stats.pages_scraped + stats.errors <= stats.total_pages
          /\ mpc \in {"dispatch", "pop", "enqueue", "join"} =>
                stats.pages_scraped + stats.errors + Len(futures) = stats.total_pages
          /\ mpc = "returned" =>
                /\ stats.pages_skipped =
                      stats.total_pages - stats.pages_scraped - stats.errors
                /\ stats.pages_skipped >= 0)
    /\ [][ mpc = "join" =>
             /\ urls_to_visit' = urls_to_visit
             /\ stats'.pages_scraped = stats.pages_scraped
             /\ stats'.errors = stats.errors
             /\ mpc' = "returned" => stats'.pages_skipped = Len(futures) ]_vars

\* max_pages has ended a crawl while its two pages were being fetched: both
\* pages are stored, both are counted as skipped and none as scraped, and
\* the frontier is empty although page a links to others
C34_Witness ==
    /\ mpc = "returned" /\ max_pages = 2
    /\ stats.total_pages = 2 /\ stats.pages_scraped = 0 /\ stats.pages_skipped = 2
    /\ urls_to_visit = <<>>
    /\ {hash_url("a"), hash_url("b")} \subseteq DOMAIN htmlFiles

\* C35: a crawl that repeats a returned crawl on the unchanged site (same
\* seeds, same max_pages, every seed page as it was) dispatches no URL that
\* is not a seed, because every seed page is dropped as known before its
\* links are extracted.
C35_RecrawlSeedsOnly == rerun => visited_urls \subseteq SeqToSet(start_urls)

\* the URLs that carry one of the DOCUMENT_EXTENSIONS
DocumentLinks == {u \in Urls : DocExtOfUrl(u) # "none"}

\* C38: a document link found in a page is downloaded inline by the thread
\* that parsed the page, whether or not the document was fetched before, and
\* stays outside the bookkeeping of the crawl: no document link is in the
\* frontier or in the visited set, total_pages counts the dispatched URLs
\* only, and no step of an inline download changes frontier, visited set or
\* statistics.
C38_InlineDocuments ==
    /\ [](/\ DocumentLinks \cap (visited_urls \cup SeqToSet(urls_to_visit)) = {}
          /\ mpc \in {"dispatch", "pop", "enqueue", "join"} =>
                stats.total_pages = Cardinality(visited_urls)
          /\ \A w \in 1..NumWorkers :
                (workers[w].pc \in DownloaderSteps /\ workers[w].ret = "links")
                   => /\ workers[w].doc \in DocumentLinks
                      /\ workers[w].url \in visited_urls
                      /\ workers[w].doc \notin SeqToSet(workers[w].found))
    /\ [][ \A w \in 1..NumWorkers :
             /\ (workers[w].pc = "s_links" /\ workers'[w] # workers[w]
                    /\ \E i \in 1..Len(workers[w].todo) :
                          workers[w].todo[i] \in DocumentLinks)
                   => /\ workers'[w].pc = "d_fetch"
                      /\ workers'[w].ret = "links"
                      /\ workers'[w].doc \in DocumentLinks
                      /\ workers'[w].url = workers[w].url
             /\ (workers[w].pc \in DownloaderSteps /\ workers[w].ret = "links"
                    /\ workers'[w] # workers[w])
                   => /\ urls_to_visit' = urls_to_visit
                      /\ visited_urls' = visited_urls
                      /\ stats' = stats ]_vars

\* the first crawl, with max_pages = 1, has stored the document of the
\* first link of page a and has fetched it again for the second link
C38_Witness ==
    /\ crawlNo = 1 /\ max_pages = 1 /\ stats.total_pages = 1
    /\ \E w \in 1..NumWorkers :
          /\ workers[w].url = "a" /\ workers[w].pc = "d_check"
          /\ workers[w].ret = "links" /\ workers[w].doc = "d.pdf"
          /\ workers[w].todo = <<>>
          /\ <<hash_url("d.pdf"), workers[w].ext>> \in DOMAIN tempFiles
    /\ hash_url("d.pdf") \in DOMAIN docHashes
    /\ "d.pdf" \notin visited_urls

\* no call of scrape_page or download_document is in progress
Quiescent == \A w \in 1..NumWorkers : workers[w].pc \in {"idle", "done"}

\* the sidecar and the ledger entry of identifier id agree with content body
Consistent(hashes, id, body) ==
    /\ id \in DOMAIN hashes
    /\ hashes[id] = content_hash_of(body)
    /\ id \in DOMAIN ledger
    /\ ledger[id].content_hash = hashes[id]
    /\ ledger[id].duplicate_of = "none"

\* C36: whenever no scrape_page or download_document call is in progress,
\* every stored page and every stored document has a sidecar holding the
\* hash of its content and a ledger entry under its identifier with that
\* hash and no duplicate_of, and every sidecar has its artifact.
C36_StoreConsistent ==
    Quiescent =>
        /\ \A id \in DOMAIN htmlFiles : Consistent(htmlHashes, id, htmlFiles[id])
        /\ \A n \in DOMAIN docFiles : Consistent(docHashes, n[1], docFiles[n])
        /\ \A id \in DOMAIN htmlHashes : id \in DOMAIN htmlFiles
        /\ \A id \in DOMAIN docHashes : \E n \in DOMAIN docFiles : n[1] = id

\* C32: once the Chatbot is built no step of a chat request changes its
\* index, its texts or its metadata, and what _find_relevant_chunks returns
\* to a request is what the store as loaded gives for the request's own
\* rewritten question, whatever the concurrent requests have searched.
C32_ReadOnlyQueries ==
    /\ [][cpc # "startup" => chatbot' = chatbot]_vars
    /\ [](Returned =>
            search_results =
               find_relevant_chunks(load_vector_store(idxFile, mapFile), cRewritten))
    /\ [](concurrent_results # <<>> =>
            \E q \in Questions :
               concurrent_results =
                  find_relevant_chunks(load_vector_store(idxFile, mapFile), q))

\* a request has its chunks and a concurrent request, searching for another
\* question, has been given the same chunks in another order
C32_Witness ==
    /\ Returned /\ cpc = "done"
    /\ Len(search_results) >= 2
    /\ Len(concurrent_results) = Len(search_results)
    /\ concurrent_results # search_results

\* a page of html_brut that begins with the magic bytes of a PDF or of a zip
HasMagic(body) ==
    StartsWith(first_bytes(body), MagicPdf) \/ StartsWith(first_bytes(body), MagicZip)

\* C31: a pass of clean_corrupted_html_files with dry_run=False that ends
\* with no error leaves in html_brut no page that begins with %PDF or PK;
\* every page that began so is in corrupted_files with the bytes it had,
\* its sidecar is there too and no longer in html_hashes, and its ledger
\* entry is still there, holds what it held and is marked corrupted.
C31_CorruptedIsolated ==
    [][ (clean_runs' = clean_runs + 1 /\ ~clean_stats'.dry_run
            /\ clean_stats'.errors = 0)
        => /\ \A id \in DOMAIN htmlFiles' : ~HasMagic(htmlFiles'[id])
           /\ \A id \in DOMAIN htmlFiles :
                 HasMagic(htmlFiles[id]) =>
                    /\ <<id, ".html">> \in DOMAIN corrupted_dir'
                    /\ corrupted_dir'[<<id, ".html">>] = htmlFiles[id]
                    /\ id \in DOMAIN htmlHashes =>
                          /\ id \notin DOMAIN htmlHashes'
                          /\ <<id, ".hash">> \in DOMAIN corrupted_dir'
                          /\ corrupted_dir'[<<id, ".hash">>] = htmlHashes[id]
                    /\ id \in DOMAIN ledger =>
                          /\ id \in DOMAIN ledger'
                          /\ ledger'[id].status = "corrupted"
                          /\ \A f \in DOMAIN ledger[id] \ {"status"} :
                                ledger'[id][f] = ledger[id][f]
           /\ DOMAIN ledger' = DOMAIN ledger ]_vars

\* the first pass has moved a PDF and a zip with their sidecars and has left
\* the page that begins with a byte order mark
C31_Witness ==
    /\ clean_runs = 1 /\ ~clean_stats.dry_run /\ clean_stats.errors = 0
    /\ clean_stats.corrupted_pdf = 1 /\ clean_stats.corrupted_zip = 1
    /\ clean_stats.moved = 3
    /\ DOMAIN htmlFiles = {"l2"}
    /\ {<<"a", ".html">>, <<"a", ".hash">>, <<"b", ".html">>, <<"b", ".hash">>}
          \subseteq DOMAIN corrupted_dir
    /\ ledger["b"].status = "corrupted"

\* the pages a cleaning pass takes for corrupted
CorruptedPages(files) ==
    {id \in DOMAIN files : corruption_type(first_bytes(files[id])) # "none"}

\* the files of a folder that have the text of a file with a lesser name
LaterCopies(folder) ==
    {n \in DOMAIN folder : \E m \in DOMAIN folder : folder[m] = folder[n] /\ LexLess(m, n)}

\* C37: a pass of clean_corrupted_html_files, deduplicate_markdown_files or
\* deduplicate_converted_documents with dry_run=True moves and deletes no
\* file and leaves the ledger as it is; a pass that ends with no error
\* reports, with dry_run=True and with dry_run=False alike, the corrupted
\* pages or the duplicate files of the state it started from, and with
\* dry_run=False these are the files it has taken away.
C37_DryRunReports ==
    [][ /\ clean_runs' = clean_runs + 1 =>
             /\ clean_stats'.dry_run =>
                   /\ htmlFiles' = htmlFiles /\ htmlHashes' = htmlHashes
                   /\ corrupted_dir' = corrupted_dir /\ ledger' = ledger
                   /\ mdHtml' = mdHtml /\ mdDocs' = mdDocs
                   /\ clean_stats'.moved = 0
             /\ clean_stats'.errors = 0 =>
                   /\ {c.file : c \in clean_stats'.corrupted_files}
                         = CorruptedPages(htmlFiles)
                   /\ ~clean_stats'.dry_run =>
                         DOMAIN htmlFiles \ DOMAIN htmlFiles' = CorruptedPages(htmlFiles)
        /\ dRuns' = dRuns + 1 =>
             LET before == IF dResult'.folder = "converted_html" THEN mdHtml ELSE mdDocs
                 after == IF dResult'.folder = "converted_html" THEN mdHtml' ELSE mdDocs' IN
             /\ dResult'.dry_run =>
                   /\ mdHtml' = mdHtml /\ mdDocs' = mdDocs /\ ledger' = ledger
                   /\ htmlFiles' = htmlFiles /\ htmlHashes' = htmlHashes
             /\ dResult'.removed_files = LaterCopies(before)
             /\ ~dResult'.dry_run => DOMAIN before \ DOMAIN after = LaterCopies(before)
      ]_vars

\* a dry run of the cleaning pass has reported the three corrupted pages
\* and a dry run of deduplicate_markdown_files the three later copies, and
\* every file is where it was
C37_Witness ==
    /\ clean_runs = 1 /\ clean_stats.dry_run /\ clean_stats.errors = 0
    /\ {c.file : c \in clean_stats.corrupted_files} = {"a", "b", "l1"}
    /\ DOMAIN htmlFiles = {"a", "b", "l1", "l2"}
    /\ corrupted_dir = Empty
    /\ dRuns = 1 /\ dResult.dry_run /\ dResult.folder = "converted_html"
    /\ dResult.files_removed = 3
    /\ mdHtml = AllAlike(HtmlNames)
    /\ \A id \in DOMAIN ledger : "status" \notin DOMAIN ledger[id]

(***************************************************************************)
(* The session tokens of src/auth/logic.py.  The pages of the application  *)
(* run in threads of their own: a call of validate_session_token is taken  *)
(* one request to the database at a time, while logins, logouts, the TTL   *)
(* monitor of the database and the clock go on.                            *)
(***************************************************************************)
MaxTokens == 2
MaxNow == 8

\* ttl_days, line 161
ttl_days == 7

\* secrets.token_urlsafe(32), line 177: a token that was never drawn before
RawTokens == <<"t1", "t2">>
\* what a cookie may hold: a token, a string that is no token, nothing
TokenInputs == SeqToSet(RawTokens) \cup {"forged", ""}
Users == {"u1", "u2"}

\* find_one({'token_hash': h}): the documents that match
Matching(coll, h) == {id \in DOMAIN coll : coll[id].token_hash = h}
First(ids) == CHOOSE id \in ids : \A other \in ids : id <= other

\* delete_one(filter): the first document that matches is removed
delete_one(coll, ids) == IF ids = {} THEN coll ELSE Del(coll, {First(ids)})

AuthFrame ==
    UNCHANGED <<storeVars, crawlVars, dedupVars, indexVars, normVars, chatVars,
                retryVars>>

InitAuth ==
    /\ StoreEmpty /\ site = NoSite /\ CrawlAtRest
    /\ DedupAtRest /\ IndexAtRest /\ NormAtRest /\ ChatAtRest /\ RetryAtRest
    /\ AuthAtRest

\* the clock
Tick ==
    /\ \E d \in {1, ttl_days} : now + d <= MaxNow /\ now' = now + d
    /\ UNCHANGED <<sessions, issued, vpc, vToken, vSess, vRet, vStale, revoked, deleted>>
    /\ AuthFrame

\* lines 160-198, called at sign-up and at login (ui.py, lines 188 and 217)
generate_session_token ==
    /\ Len(issued) < MaxTokens
    /\ \E user \in Users :
          LET raw == RawTokens[Len(issued) + 1] IN
          /\ sessions' = Put(sessions, Len(issued) + 1,
                             [token_hash |-> _hash_token(raw), user_id |-> user,
                              created_at |-> now, expires_at |-> now + ttl_days,
                              last_used_at |-> now])
          /\ issued' = Append(issued, raw)
    /\ UNCHANGED <<now, vpc, vToken, vSess, vRet, vStale, revoked, deleted>>
    /\ AuthFrame

\* the TTL index of line 171: the database removes a document whose
\* expires_at is reached
TtlMonitor ==
    /\ \E id \in DOMAIN sessions :
          /\ sessions[id].expires_at <= now
          /\ sessions' = Del(sessions, {id})
    /\ UNCHANGED <<issued, now, vpc, vToken, vSess, vRet, vStale, revoked, deleted>>
    /\ AuthFrame

\* lines 201-206, called by _restore_session_from_cookie (ui.py, line 378)
ValidateCall ==
    /\ vpc \in {"idle", "returned"}
    /\ \E token \in TokenInputs :
          /\ vToken' = token
          /\ vStale' = (token \in revoked)
          /\ IF token = ""
             THEN vpc' = "returned" /\ vRet' = "None"
             ELSE vpc' = "find" /\ vRet' = "pending"
    /\ vSess' = NoSess
    /\ UNCHANGED <<sessions, issued, now, revoked, deleted>>
    /\ AuthFrame

\* lines 207-212: find_one
ValidateFind ==
    /\ vpc = "find"
    /\ LET ids == Matching(sessions, _hash_token(vToken)) IN
       IF ids = {}
       THEN vpc' = "returned" /\ vRet' = "None" /\ UNCHANGED vSess
       ELSE /\ vSess' = [id |-> First(ids),
                         token_hash |-> sessions[First(ids)].token_hash,
                         user_id |-> sessions[First(ids)].user_id,
                         expires_at |-> sessions[First(ids)].expires_at]
            /\ vpc' = "expiry" /\ UNCHANGED vRet
    /\ UNCHANGED <<sessions, issued, now, vToken, vStale, revoked, deleted>>
    /\ AuthFrame

\* line 215, with the mutant for which no session is ever too old
is_expired_never(exp, utcnow) == FALSE

is_expired(exp, utcnow) == exp < utcnow

\* lines 213-220: the test of the expiry, and the session is deleted
ValidateExpiry ==
    /\ vpc = "expiry"
    /\ IF is_expired(vSess.expires_at, now)
       THEN /\ sessions' = Del(sessions, {vSess.id})
            /\ vpc' = "returned" /\ vRet' = "None"
       ELSE /\ vpc' = "touch"
            /\ UNCHANGED <<sessions, vRet>>
    /\ UNCHANGED <<issued, now, vToken, vSess, vStale, revoked, deleted>>
    /\ AuthFrame

\* lines 222-226: update_one, which inserts nothing when the document is gone
ValidateTouch ==
    /\ vpc = "touch"
    /\ sessions' = IF vSess.id \in DOMAIN sessions
                   THEN [sessions EXCEPT ![vSess.id].last_used_at = now]
                   ELSE sessions
    /\ vpc' = "user"
    /\ UNCHANGED <<issued, now, vToken, vSess, vRet, vStale, revoked, deleted>>
    /\ AuthFrame

\* lines 228-230: the user of the session is read and returned
ValidateUser ==
    /\ vpc = "user"
    /\ vRet' = vSess.user_id
    /\ vpc' = "returned"
    /\ UNCHANGED <<sessions, issued, now, vToken, vSess, vStale, revoked, deleted>>
    /\ AuthFrame

\* lines 233-241, called by logout (ui.py, line 359)
delete_session_token ==
    /\ \E token \in TokenInputs :
          LET ids == IF token = "" THEN {}
                     ELSE Matching(sessions, _hash_token(token))
              ret == ids # {} IN
          /\ sessions' = delete_one(sessions, ids)
          /\ revoked' = IF ret THEN revoked \cup {token} ELSE revoked
          /\ deleted' = [token |-> token, ret |-> ret]
    /\ UNCHANGED <<issued, now, vpc, vToken, vSess, vRet, vStale>>
    /\ AuthFrame

NextAuth ==
    \/ Tick \/ generate_session_token \/ TtlMonitor
    \/ ValidateCall \/ ValidateFind \/ ValidateExpiry \/ ValidateTouch
    \/ ValidateUser
    \/ delete_session_token

SpecAuth == InitAuth /\ [][NextAuth]_vars

\* the sessions collection holds a document for the token
Stored(coll, token) == \E id \in DOMAIN coll : coll[id].token_hash = _hash_token(token)

\* C39: validate_session_token returns a user only after it has found a
\* stored session with the hash of its token and has seen that the expiry
\* of that session is not in the past; when the expiry is in the past the
\* session is deleted and None is returned; and once delete_session_token
\* has returned True for a token, no session of that token is stored and no
\* call of validate_session_token made afterwards with it returns a user.
C39_SessionLifecycle ==
    /\ [][ /\ (vpc = "find" /\ vpc' # "find") =>
                  IF Stored(sessions, vToken)
                  THEN /\ vpc' = "expiry"
                       /\ vSess'.id \in DOMAIN sessions
                       /\ sessions[vSess'.id].token_hash = _hash_token(vToken)
                       /\ vSess'.expires_at = sessions[vSess'.id].expires_at
                       /\ vSess'.user_id = sessions[vSess'.id].user_id
                  ELSE vpc' = "returned" /\ vRet' = "None"
           /\ (vpc = "expiry" /\ vpc' # "expiry") =>
                  IF vSess.expires_at < now
                  THEN /\ vpc' = "returned" /\ vRet' = "None"
                       /\ vSess.id \notin DOMAIN sessions'
                       /\ ~Stored(sessions', vToken)
                  ELSE vpc' = "touch" /\ sessions' = sessions
           /\ (vpc # "returned" /\ vpc' = "returned" /\ vRet' \in Users) =>
                  /\ vpc = "user" /\ vRet' = vSess.user_id
                  /\ vSess.token_hash = _hash_token(vToken)
           /\ revoked \subseteq revoked'
           /\ (deleted' # deleted /\ deleted'.ret) =>
                  /\ Stored(sessions, deleted'.token)
                  /\ deleted'.token \in revoked' ]_vars
    /\ [](\A token \in revoked : ~Stored(sessions, token))
    /\ [](vpc \in {"expiry", "touch", "user"} =>
            vSess # NoSess /\ vSess.token_hash = _hash_token(vToken))
    /\ []((vpc = "returned" /\ vStale) => vRet = "None")

\* the first token has been deleted at logout and validated afterwards, to
\* no avail, and the second token is still good
C39_Witness ==
    /\ revoked = {"t1"}
    /\ vpc = "returned" /\ vToken = "t1" /\ vStale /\ vRet = "None"
    /\ Stored(sessions, "t2")
    /\ now > ttl_days

====
